---- MODULE Spec2Model ----
(***************************************************************************)
(* A model of the documentation-markup extractor of                        *)
(* source/slang/slang-doc-extractor.cpp: the token classifier, the         *)
(* decoration stripper, the boundary scanner, the markup locator, the text *)
(* extractor, the visibility scanner and the batch driver.                 *)
(*                                                                         *)
(* Text is a sequence of one-character strings.  A token is a record       *)
(*   [type, content, line, col, loc]                                       *)
(* with the lexer's token type, the raw source text of the token, the      *)
(* index of the line the token starts on, the number of characters that    *)
(* precede it on that line, and its raw source location.                   *)
(***************************************************************************)
EXTENDS Integers, Sequences, FiniteSets, TLC

VARIABLES
    pc,         \* position of the running call
    arg,        \* the arguments of the running call
    ret,        \* what the call returned
    scanIndex,  \* _findStartIndex: i, the index of the token to read
    scanDepth,  \* _findStartIndex: openCount, the depth counter
    scanTok,    \* _findStartIndex: tok, the token read last
    nest,       \* the bracket structure of the tokens read by the scan
    searchLo,   \* _findTokenIndex: lo
    searchHi,   \* _findTokenIndex: hi
    decls,          \* extract (module): the flattened declarations
    inputs,         \* extract (batch): the requests, in the caller's order
    entries,        \* extract (batch): List<Entry> entries
    outViews,       \* extract (batch): the views found, one per source file
    out,            \* extract (batch): List<SearchItemOutput> out
    entryIndex,     \* the loop index i of the running loop
    viewIndex,      \* extract (batch): the view the token list belongs to
    tokenList,      \* extract (batch): TokenList tokens
    lineVisibility, \* extract (batch): the visibility table of that view
    lexed,          \* the views handed to the lexer so far, in order
    outDoc,         \* extract (module): the entries added to the DocMarkup
    sink            \* the diagnostics sent to the DiagnosticSink

vars == <<pc, arg, ret, scanIndex, scanDepth, scanTok, nest, searchLo, searchHi, decls, inputs, entries,
          outViews, out, entryIndex, viewIndex, tokenList, lineVisibility, lexed, outDoc,
          sink>>

scanVars == <<scanIndex, scanDepth, scanTok, nest>>

searchVars == <<searchLo, searchHi>>

batchVars == <<decls, inputs, entries, outViews, out, entryIndex, viewIndex, tokenList,
               lineVisibility, lexed, outDoc, sink>>

\* no batch is running
BatchIdle ==
    /\ decls = <<>> /\ inputs = <<>> /\ entries = <<>> /\ outViews = <<>> /\ out = <<>>
    /\ entryIndex = 0 /\ viewIndex = -1 /\ tokenList = <<>> /\ lineVisibility = <<>>
    /\ lexed = <<>> /\ outDoc = <<>> /\ sink = <<>>

\* no boundary scan is stepped through
ScanIdle == scanIndex = 0 /\ scanDepth = 0 /\ scanTok = <<>> /\ nest = <<>>

\* no token lookup is stepped through
SearchIdle == searchLo = 0 /\ searchHi = 0

----------------------------------------------------------------------------
(* Bounds of the model.                                                    *)

\* longest comment body (the text after "//" or between "/*" and "*/")
MaxBody == 3

\* longest body of the block comments whose text is extracted
MaxBlockBody == 4

\* largest column a block comment starts at
MaxColumn == 2

\* longest run of line comments, and the most spaces after a decoration
MaxRun == 3
MaxRunIndent == 2

\* most lines of a file whose visibility table is computed
MaxLines == 4

\* most tokens of a stream that is scanned token by token
MaxScanTokens == 5

\* most tokens that vary in front of or behind a declaration to locate
MaxSide == 3

\* most declarations of a module, hence most requests of a batch
MaxDecls == 3

\* most generic declarations around a declaration
MaxGenericDepth == 2

\* longest token list of a stepped token lookup
MaxSearchTokens == 4

\* largest raw location of a token in a stepped token lookup
MaxSearchLoc == 5

\* deepest nesting of declarations below a member of the module
MaxTreeDepth == 1

\* most members of a container declaration
MaxMembers == 2

\* most requests of a batch that is followed to its end
MaxLiveRequests == 2

----------------------------------------------------------------------------
(* Text helpers: UnownedStringSlice.                                       *)

NL == "\n"

\* UnownedStringSlice::startsWith
startsWith(s, p) == Len(s) >= Len(p) /\ SubSeq(s, 1, Len(p)) = p

\* UnownedStringSlice::tail(n): everything from (0-based) index n on
tail(s, n) == SubSeq(s, n + 1, Len(s))

\* UnownedStringSlice::head(n): the first n characters
head(s, n) == SubSeq(s, 1, n)

IsWhite(c) == c \in {" ", "\t", NL, "\r"}

\* UnownedStringSlice::trim(): white space removed at both ends
RECURSIVE trimStart(_)
trimStart(s) ==
    IF Len(s) > 0 /\ IsWhite(s[1]) THEN trimStart(Tail(s)) ELSE s

RECURSIVE trimEnd(_)
trimEnd(s) ==
    IF Len(s) > 0 /\ IsWhite(s[Len(s)]) THEN trimEnd(SubSeq(s, 1, Len(s) - 1)) ELSE s

trim(s) == trimEnd(trimStart(s))

----------------------------------------------------------------------------
(* MarkupType, MarkupFlags, the classifier and the decoration stripper.    *)

MarkupTypes ==
    {"None", "BlockBefore", "BlockAfter", "LineBangBefore", "LineSlashBefore",
     "LineBangAfter", "LineSlashAfter"}

\* DocMarkupExtractor::getFlags: the set of MarkupFlag bits of a type
getFlags(type) ==
    CASE type = "BlockBefore"     -> {"Before", "IsBlock"}
      [] type = "BlockAfter"      -> {"After", "IsBlock"}
      [] type = "LineBangBefore"  -> {"Before", "IsMultiToken"}
      [] type = "LineSlashBefore" -> {"Before", "IsMultiToken"}
      [] type = "LineBangAfter"   -> {"After", "IsMultiToken"}
      [] type = "LineSlashAfter"  -> {"After", "IsMultiToken"}
      [] OTHER                    -> {}

\* a classifier that takes only '*' as the mark of a block dialect
findMarkupTypeStarOnly(tok) ==
    IF tok.type = "BlockComment" /\ Len(tok.content) >= 3 /\ tok.content[3] = "*"
    THEN (IF Len(tok.content) >= 4 /\ tok.content[4] = "<" THEN "BlockAfter" ELSE "BlockBefore")
    ELSE "None"

\* DocMarkupExtractor::findMarkupType (slice[2] is the third character)
findMarkupType(tok) ==
    LET slice == tok.content IN
    CASE tok.type = "BlockComment" ->
            IF Len(slice) >= 3 /\ (slice[3] = "!" \/ slice[3] = "*")
            THEN (IF Len(slice) >= 4 /\ slice[4] = "<" THEN "BlockAfter" ELSE "BlockBefore")
            ELSE "None"
      [] tok.type = "LineComment" ->
            IF Len(slice) >= 3
            THEN (IF slice[3] = "!"
                  THEN (IF Len(slice) >= 4 /\ slice[4] = "<"
                        THEN "LineBangAfter" ELSE "LineBangBefore")
                  ELSE IF slice[3] = "/"
                  THEN (IF Len(slice) >= 4 /\ slice[4] = "<"
                        THEN "LineSlashAfter" ELSE "LineSlashBefore")
                  ELSE "None")
            ELSE "None"
      [] OTHER -> "None"

\* a stripper that takes three characters for every dialect
removeStartThree(type, comment) ==
    IF type = "None" THEN comment ELSE tail(comment, 3)

\* DocMarkupExtractor::removeStart
removeStart(type, comment) ==
    CASE type = "BlockBefore" ->
            IF startsWith(comment, <<"/", "*", "*">>) \/ startsWith(comment, <<"/", "*", "!">>)
            THEN tail(comment, 3) ELSE comment
      [] type = "BlockAfter" ->
            IF startsWith(comment, <<"/", "*", "*", "<">>)
               \/ startsWith(comment, <<"/", "*", "!", "<">>)
            THEN tail(comment, 4) ELSE comment
      [] type = "LineBangBefore" ->
            IF startsWith(comment, <<"/", "/", "!">>) THEN tail(comment, 3) ELSE comment
      [] type = "LineSlashBefore" ->
            IF startsWith(comment, <<"/", "/", "/">>) THEN tail(comment, 3) ELSE comment
      [] type = "LineBangAfter" ->
            IF startsWith(comment, <<"/", "/", "!", "<">>) THEN tail(comment, 4) ELSE comment
      [] type = "LineSlashAfter" ->
            IF startsWith(comment, <<"/", "/", "/", "<">>) THEN tail(comment, 4) ELSE comment
      [] OTHER -> comment

----------------------------------------------------------------------------
(* The comment tokens the lexer can produce.  A line comment is "//" and   *)
(* text up to the end of the line; a block comment is the shortest text    *)
(* that starts with a slash and a star and ends with a star and a slash.   *)

BodyChars == {"/", "*", "!", "<", " ", "a"}

\* s holds the closing sequence of a block comment at (1-based) index i
ClosesAt(s, i) == i + 1 <= Len(s) /\ s[i] = "*" /\ s[i + 1] = "/"

LineCommentOf(body) == <<"/", "/">> \o body

BlockCommentOf(body) == <<"/", "*">> \o body \o <<"*", "/">>

\* the body of a block comment: the lexer ends the comment at the first closer
IsBlockBody(body) ==
    LET s == body \o <<"*", "/">> IN
    \A i \in 1..Len(body) : ~ClosesAt(s, i)

Token(type, content, line, col, loc) ==
    [type |-> type, content |-> content, line |-> line, col |-> col, loc |-> loc]


----------------------------------------------------------------------------
(* SpecClassify: classify one token and strip its decoration.              *)

InitClassify ==
    /\ ScanIdle
    /\ SearchIdle
    /\ BatchIdle
    /\ pc = "classify"
    /\ \/ \E k \in 0..MaxBody : \E b \in [1..k -> BodyChars] :
             arg = Token("LineComment", LineCommentOf(b), 0, 0, 0)
       \/ \E k \in 0..MaxBody : \E b \in [1..k -> BodyChars \cup {NL}] :
             /\ IsBlockBody(b)
             /\ arg = Token("BlockComment", BlockCommentOf(b), 0, 0, 0)
       \/ arg = Token("Identifier", <<"a">>, 0, 0, 0)
       \/ \* a token that is no comment, whatever its text
          \E type \in {"StringLiteral", "OpDiv", "Unknown"} :
          \E k \in 0..MaxBody : \E b \in [1..k -> BodyChars] :
             arg = Token(type, <<"/">> \o b, 0, 0, 0)
    /\ ret = <<>>

Classify ==
    /\ pc = "classify"
    /\ pc' = "classified"
    /\ LET type == findMarkupType(arg) IN
       ret' = [type |-> type, text |-> removeStart(type, arg.content)]
    /\ UNCHANGED <<arg, scanVars, searchVars, batchVars>>

NextClassify == Classify

SpecClassify == InitClassify /\ [][NextClassify]_vars

\* the decoration of each dialect, as the documentation comments write them
DecorationsOf(type) ==
    CASE type = "BlockBefore"     -> {<<"/", "*", "*">>, <<"/", "*", "!">>}
      [] type = "BlockAfter"      -> {<<"/", "*", "*", "<">>, <<"/", "*", "!", "<">>}
      [] type = "LineBangBefore"  -> {<<"/", "/", "!">>}
      [] type = "LineSlashBefore" -> {<<"/", "/", "/">>}
      [] type = "LineBangAfter"   -> {<<"/", "/", "!", "<">>}
      [] type = "LineSlashAfter"  -> {<<"/", "/", "/", "<">>}
      [] OTHER                    -> {}

\* C10: for every token the classifier labels with a dialect D, removeStart(D, .)
\* takes exactly D's decoration (3 characters for a before dialect, 4 for an
\* after dialect) off the front and leaves the rest of the content as it is.
C10_StripAgreesWithClassifier ==
    (pc = "classified" /\ ret.type # "None") =>
        \E d \in DecorationsOf(ret.type) :
            /\ Len(d) = (IF "After" \in getFlags(ret.type) THEN 4 ELSE 3)
            /\ arg.content = d \o ret.text

\* an after-dialect token has been classified and stripped
C10_Witness ==
    /\ pc = "classified"
    /\ ret.type = "LineSlashAfter"
    /\ Len(ret.text) > 0

\* the character at (0-based) index k of a text, "" past its end
CharAt(s, k) == IF k < Len(s) THEN s[k + 1] ELSE ""

\* the dialect that goes with a token type, a third and a fourth character
DialectOf(type, third, fourth) ==
    CASE type = "BlockComment" /\ third \in {"!", "*"} ->
            IF fourth = "<" THEN "BlockAfter" ELSE "BlockBefore"
      [] type = "LineComment" /\ third = "!" ->
            IF fourth = "<" THEN "LineBangAfter" ELSE "LineBangBefore"
      [] type = "LineComment" /\ third = "/" ->
            IF fourth = "<" THEN "LineSlashAfter" ELSE "LineSlashBefore"
      [] OTHER -> "None"

\* C11: the classifier's answer depends on the token type and on the third and
\* fourth character of the content only, by the table DialectOf; a comment of
\* fewer than 3 characters and a token that is no comment are None.
C11_ClassifierTable ==
    pc = "classified" =>
        /\ ret.type = DialectOf(arg.type, CharAt(arg.content, 2), CharAt(arg.content, 3))
        /\ (Len(arg.content) < 3 \/ arg.type \notin {"LineComment", "BlockComment"})
              => ret.type = "None"

\* a block comment marked with '!' and '<' has been classified
C11_Witness ==
    /\ pc = "classified"
    /\ arg.type = "BlockComment"
    /\ CharAt(arg.content, 2) = "!"
    /\ ret.type = "BlockAfter"

----------------------------------------------------------------------------
(* The markup text extractor.                                              *)

\* StringUtil::calcLines: the lines of a text, split at line breaks
RECURSIVE calcLines(_)
calcLines(s) ==
    IF \E i \in 1..Len(s) : s[i] = NL
    THEN LET i == CHOOSE k \in 1..Len(s) : s[k] = NL /\ \A j \in 1..(k - 1) : s[j] # NL
         IN  <<SubSeq(s, 1, i - 1)>> \o calcLines(SubSeq(s, i + 1, Len(s)))
    ELSE <<s>>

\* _calcWhitespaceIndent: the number of leading spaces
RECURSIVE _calcWhitespaceIndent(_)
_calcWhitespaceIndent(line) ==
    IF Len(line) > 0 /\ line[1] = " " THEN 1 + _calcWhitespaceIndent(Tail(line)) ELSE 0

\* an indent that is never measured
calcIndentZero(prefixLength) == 0

\* _calcIndent: the width of the text that precedes a block comment on its line
_calcIndent(prefixLength) == prefixLength

\* a line appended with all of its leading spaces removed
appendTrimmedLine(line, maxIndent) == trimStart(line)

\* _appendUnindenttedLine: the text appended to out
_appendUnindenttedLine(line, maxIndent) ==
    LET indent == _calcWhitespaceIndent(line) IN
    tail(line, IF maxIndent >= 0 /\ indent > maxIndent THEN maxIndent ELSE indent)

Min(S) == CHOOSE x \in S : \A y \in S : x <= y

\* the token at (0-based) index i
At(toks, i) == toks[i + 1]

RECURSIVE Concat(_)
Concat(ss) == IF Len(ss) = 0 THEN <<>> ELSE Head(ss) \o Concat(Tail(ss))

CloseSeq == <<"*", "/">>

\* one round of the loop over the lines of a block comment (i is 0-based):
\* whether the assertion on the close-sequence held and the text appended
BlockLine(type, lines, i, startCol) ==
    LET linesCount == Len(lines)
        raw        == lines[i + 1]
        \* startLine.isMemoryContained(line.begin()): the first line of the
        \* token begins on the line that holds the token's offset
        maxIndent  == _calcIndent(startCol)
        stripped   == IF i = 0 THEN removeStart(type, raw) ELSE raw
        isLast     == (i = linesCount - 1)
        assertOk   == isLast =>
                        /\ Len(stripped) >= 2
                        /\ tail(stripped, Len(stripped) - 2) = CloseSeq
        line       == IF isLast /\ Len(stripped) >= 2
                      THEN head(stripped, Len(stripped) - 2) ELSE stripped
        unindented == IF i > 0 THEN _appendUnindenttedLine(line, maxIndent) ELSE line
        skip       == (isLast \/ i = 0) /\ Len(trim(unindented)) = 0
    IN  [assertOk |-> assertOk,
         text     |-> IF skip THEN <<>> ELSE unindented \o <<NL>>]

\* the block branch of _extractMarkup
extractBlock(type, tok) ==
    LET lines == calcLines(tok.content)
        each  == [k \in 1..Len(lines) |-> BlockLine(type, lines, k - 1, tok.col)]
    IN  IF \A k \in 1..Len(lines) : each[k].assertOk
        THEN [res |-> "OK", text |-> Concat([k \in 1..Len(lines) |-> each[k].text])]
        ELSE [res |-> "ASSERT", text |-> <<>>]

\* an extraction that leaves out every white line of the run
RECURSIVE runLinesDropWhite(_, _, _, _, _)
runLinesDropWhite(type, toks, i, start, end) ==
    IF i >= end THEN <<>>
    ELSE LET line == removeStart(type, At(toks, i).content)
         IN  (IF Len(trim(line)) = 0 THEN <<>> ELSE <<line>>)
             \o runLinesDropWhite(type, toks, i + 1, start, end)

\* the lines of a run of line comments, decoration removed, with a white
\* first or last line left out (range is [start, end), 0-based)
RECURSIVE runLines(_, _, _, _, _)
runLines(type, toks, i, start, end) ==
    IF i >= end THEN <<>>
    ELSE LET line == removeStart(type, At(toks, i).content)
             skip == (i = start \/ i = end - 1) /\ Len(trim(line)) = 0
         IN  (IF skip THEN <<>> ELSE <<line>>) \o runLines(type, toks, i + 1, start, end)

\* the line branch of _extractMarkup
extractLines(type, toks, start, end) ==
    LET lines == runLines(type, toks, start, start, end) IN
    IF Len(lines) = 0
    THEN [res |-> "OK", text |-> <<>>]
    ELSE LET minIndent == Min({ _calcWhitespaceIndent(lines[k]) : k \in 1..Len(lines) })
         IN  [res  |-> "OK",
              text |-> Concat([k \in 1..Len(lines) |->
                                 _appendUnindenttedLine(lines[k], minIndent) \o <<NL>>])]

\* DocMarkupExtractor::_extractMarkup; found is [type, start, end]
_extractMarkup(toks, found) ==
    IF "IsBlock" \in getFlags(found.type)
    THEN IF found.end - found.start = 1
         THEN extractBlock(found.type, At(toks, found.start))
         ELSE [res |-> "ASSERT", text |-> <<>>]
    ELSE IF "IsMultiToken" \in getFlags(found.type)
    THEN extractLines(found.type, toks, found.start, found.end)
    ELSE [res |-> "FAIL", text |-> <<>>]

----------------------------------------------------------------------------
(* SpecBlock: the text of one block comment token.                         *)

Spaces(n) == [k \in 1..n |-> " "]

\* the comment of    /** Multi
\*                       line
\*                    */ int y;
MultiComment ==
    <<"/", "*", "*", " ", "M", "u", "l", "t", "i", NL,
      " ", " ", " ", " ", "l", "i", "n", "e", NL,
      " ", "*", "/">>

\* the same comment, each line moved one column to the right
ShiftedMultiComment ==
    <<"/", "*", "*", " ", "M", "u", "l", "t", "i", NL,
      " ", " ", " ", " ", " ", "l", "i", "n", "e", NL,
      " ", " ", "*", "/">>

BlockBodyChars == {"*", "!", "<", " ", "a", NL}

InitBlock ==
    /\ ScanIdle
    /\ SearchIdle
    /\ BatchIdle
    /\ pc = "block"
    /\ \/ \E k \in 0..MaxBlockBody, c \in 0..MaxColumn : \E b \in [1..k -> BlockBodyChars] :
             /\ IsBlockBody(b)
             /\ arg = Token("BlockComment", BlockCommentOf(b), 0, c, 0)
       \/ arg = Token("BlockComment", MultiComment, 0, 0, 0)
       \/ arg = Token("BlockComment", ShiftedMultiComment, 0, 1, 0)
    /\ ret = <<>>

\* _extractMarkup on a found span of the one token arg.  A failed assertion
\* stops a checked build; an unchecked build goes on to take a slice of
\* negative length, which does not complete either: both are "ASSERT".
ExtractBlock ==
    /\ pc = "block"
    /\ pc' = "extracted"
    /\ LET type == findMarkupType(arg) IN
       ret' = [type |-> type] @@ _extractMarkup(<<arg>>, [type |-> type, start |-> 0, end |-> 1])
    /\ UNCHANGED <<arg, scanVars, searchVars, batchVars>>

NextBlock == ExtractBlock

SpecBlock == InitBlock /\ [][NextBlock]_vars

IsBlank(s) == \A k \in 1..Len(s) : IsWhite(s[k])

\* line i (1-based) of a block comment without the opening decoration (on the
\* first line) and without the close-sequence (on the last line)
BlockCore(type, lines, i) ==
    SubSeq(lines[i],
           IF i = 1 THEN (IF "After" \in getFlags(type) THEN 5 ELSE 4) ELSE 1,
           Len(lines[i]) - (IF i = Len(lines) THEN 2 ELSE 0))

\* the leading spaces an interior or final line loses: as many as it has, and
\* no more than the column the comment starts at
BlockStrip(core, col) ==
    CHOOSE k \in 0..col :
        /\ k <= Len(core)
        /\ \A j \in 1..k : core[j] = " "
        /\ (k = col \/ k = Len(core) \/ core[k + 1] # " ")

RECURSIVE BlockExpected(_, _, _, _)
BlockExpected(type, lines, i, col) ==
    IF i > Len(lines) THEN <<>>
    ELSE LET core == BlockCore(type, lines, i)
             drop == (i = 1 \/ i = Len(lines)) /\ IsBlank(core)
             line == IF i = 1 THEN core ELSE tail(core, BlockStrip(core, col))
         IN  (IF drop THEN <<>> ELSE line \o <<NL>>)
             \o BlockExpected(type, lines, i + 1, col)

BlockGeneralRule ==
    (pc = "extracted" /\ "IsBlock" \in getFlags(ret.type) /\ ret.res = "OK") =>
        ret.text = BlockExpected(ret.type, calcLines(arg.content), 1, arg.col)

----------------------------------------------------------------------------
(* SpecLines: the text of a run of line comment tokens.                    *)

LineDialects == {"LineBangBefore", "LineSlashBefore", "LineBangAfter", "LineSlashAfter"}

DecorationOf(type) == CHOOSE d \in DecorationsOf(type) : TRUE

LineWords == {<<>>, <<"a">>}

LineToken(type, indent, word, line) ==
    Token("LineComment", DecorationOf(type) \o Spaces(indent) \o word, line, 0, 0)

\* three comments whose text is indented by 4, 2 and 6 spaces
IndentExample ==
    <<LineToken("LineSlashBefore", 4, <<"a">>, 0),
      LineToken("LineSlashBefore", 2, <<"b">>, 1),
      LineToken("LineSlashBefore", 6, <<"c">>, 2)>>

InitLines ==
    /\ ScanIdle
    /\ SearchIdle
    /\ BatchIdle
    /\ pc = "lines"
    /\ \/ \E n \in 1..MaxRun, t \in LineDialects :
             \E f \in [1..n -> (0..MaxRunIndent) \X LineWords] :
                \* a run of one dialect, one comment per line
                arg = [k \in 1..n |-> LineToken(t, f[k][1], f[k][2], k - 1)]
       \/ arg = IndentExample
    /\ ret = <<>>

\* _extractMarkup on a found span that is the whole run arg
ExtractLines ==
    /\ pc = "lines"
    /\ pc' = "extracted"
    /\ LET type == findMarkupType(arg[1]) IN
       ret' = [type |-> type]
              @@ _extractMarkup(arg, [type |-> type, start |-> 0, end |-> Len(arg)])
    /\ UNCHANGED <<arg, scanVars, searchVars, batchVars>>

NextLines == ExtractLines

SpecLines == InitLines /\ [][NextLines]_vars

\* comment k of the run without its decoration
Undecorated(run, k) == tail(run[k].content, Len(DecorationOf(findMarkupType(run[1]))))

\* the comments of a run that survive: all but a white first or last one
Surviving(run) ==
    { k \in 1..Len(run) : ~((k = 1 \/ k = Len(run)) /\ IsBlank(Undecorated(run, k))) }

LeadingSpaces(s) ==
    CHOOSE n \in 0..Len(s) :
        /\ \A j \in 1..n : s[j] = " "
        /\ (n = Len(s) \/ s[n + 1] # " ")

\* C6: with m the least number of leading spaces over the surviving lines, the
\* output holds one line per surviving line, in order, and each is the
\* surviving line without its first m spaces, so that a line indented by d
\* comes out indented by d - m; indents 4, 2, 6 come out as 2, 0, 4.
C6_CommonIndentRemoved ==
    (pc = "extracted" /\ Surviving(arg) # {}) =>
        LET m    == Min({ LeadingSpaces(Undecorated(arg, k)) : k \in Surviving(arg) })
            outl == calcLines(ret.text)
            nth(k) == Cardinality({ j \in Surviving(arg) : j <= k })
        IN  /\ ret.res = "OK"
            /\ Len(outl) = Cardinality(Surviving(arg)) + 1
            /\ outl[Len(outl)] = <<>>
            /\ \A k \in Surviving(arg) :
                  /\ Spaces(m) \o outl[nth(k)] = Undecorated(arg, k)
                  /\ LeadingSpaces(outl[nth(k)]) = LeadingSpaces(Undecorated(arg, k)) - m
            /\ arg = IndentExample =>
                  [k \in 1..3 |-> LeadingSpaces(outl[k])] = <<2, 0, 4>>

\* the 4, 2, 6 example has been extracted
C6_Witness ==
    /\ pc = "extracted"
    /\ arg = IndentExample
    /\ Len(ret.text) > 0

----------------------------------------------------------------------------
(* The visibility scanner.                                                 *)

SentinelPrefix == <<"/", "/", "@">>
HiddenLabel    == <<"h", "i", "d", "d", "e", "n", ":">>
PrivateLabel   == <<"p", "r", "i", "v", "a", "t", "e", ":">>
InternalLabel  == <<"i", "n", "t", "e", "r", "n", "a", "l", ":">>
PublicLabel    == <<"p", "u", "b", "l", "i", "c", ":">>

\* a scanner that does not know the label "private:"
newVisibilityNoPrivate(contents, lastVisibility) ==
    IF startsWith(contents, SentinelPrefix)
    THEN LET access == trim(tail(contents, 3)) IN
         CASE access = HiddenLabel   -> "Hidden"
           [] access = InternalLabel -> "Internal"
           [] access = PublicLabel   -> "Public"
           [] OTHER                  -> lastVisibility
    ELSE lastVisibility

\* the visibility a line comment asks for (newVisibility in _calcLineVisibility)
newVisibility(contents, lastVisibility) ==
    IF startsWith(contents, SentinelPrefix)
    THEN LET access == trim(tail(contents, 3)) IN
         CASE access = HiddenLabel \/ access = PrivateLabel -> "Hidden"
           [] access = InternalLabel                        -> "Internal"
           [] access = PublicLabel                          -> "Public"
           [] OTHER                                         -> lastVisibility
    ELSE lastVisibility

\* the loop of _calcLineVisibility over the tokens from (1-based) k on
RECURSIVE visibilityLoop(_, _, _, _, _)
visibilityLoop(toks, k, lastVisibility, lastLine, table) ==
    IF k > Len(toks)
    THEN \* fill in the remaining
         [i \in DOMAIN table |-> IF i >= lastLine THEN lastVisibility ELSE table[i]]
    ELSE LET tok == toks[k] IN
         IF tok.type = "LineComment"
            /\ newVisibility(tok.content, lastVisibility) # lastVisibility
         THEN LET line == tok.line IN
              visibilityLoop(toks, k + 1, newVisibility(tok.content, lastVisibility), line,
                  [i \in DOMAIN table |->
                      IF lastLine <= i /\ i < line THEN lastVisibility ELSE table[i]])
         ELSE visibilityLoop(toks, k + 1, lastVisibility, lastLine, table)

\* _calcLineVisibility: the table has one entry per line, lineCount being
\* getLineBreakOffsets().getCount() + 1; setCount leaves new entries unset
_calcLineVisibility(toks, lineCount) ==
    visibilityLoop(toks, 1, "Public", 0, [i \in 0..(lineCount - 1) |-> "Unset"])

----------------------------------------------------------------------------
(* SpecVisibility: the visibility table of one file.                       *)

LineKinds == {"Ident", "Hidden", "Private", "Internal", "Public", "Bogus", "Doc"}

\* the token that makes up a line of the given kind
KindToken(kind, line) ==
    CASE kind = "Hidden"   -> Token("LineComment", SentinelPrefix \o HiddenLabel, line, 0, 0)
      [] kind = "Private"  -> Token("LineComment",
                                    SentinelPrefix \o <<" ">> \o PrivateLabel \o <<" ">>,
                                    line, 0, 0)
      [] kind = "Internal" -> Token("LineComment", SentinelPrefix \o InternalLabel, line, 0, 0)
      [] kind = "Public"   -> Token("LineComment", SentinelPrefix \o PublicLabel, line, 0, 0)
      [] kind = "Bogus"    -> Token("LineComment", SentinelPrefix \o <<"x", ":">>, line, 0, 0)
      [] kind = "Doc"      -> Token("LineComment", <<"/", "/", "/", " ", "a">>, line, 0, 0)
      [] OTHER             -> Token("Identifier", <<"a">>, line, 0, 0)

\* a file given by the kind of each of its lines (line i is kinds[i + 1])
FileOfKinds(kinds) ==
    [kinds |-> kinds, toks |-> [k \in 1..Len(kinds) |-> KindToken(kinds[k], k - 1)]]

\* twelve lines, "//@hidden:" on line 5 and "//@public:" on line 10
SentinelExample ==
    FileOfKinds([k \in 1..12 |-> IF k = 6 THEN "Hidden" ELSE IF k = 11 THEN "Public" ELSE "Ident"])

InitVisibility ==
    /\ ScanIdle
    /\ SearchIdle
    /\ BatchIdle
    /\ pc = "visibility"
    /\ \/ \E n \in 1..MaxLines : \E ks \in [1..n -> LineKinds] : arg = FileOfKinds(ks)
       \/ arg = SentinelExample
    /\ ret = <<>>

CalcLineVisibility ==
    /\ pc = "visibility"
    /\ pc' = "scanned"
    /\ ret' = _calcLineVisibility(arg.toks, Len(arg.kinds))
    /\ UNCHANGED <<arg, scanVars, searchVars, batchVars>>

NextVisibility == CalcLineVisibility

SpecVisibility == InitVisibility /\ [][NextVisibility]_vars

LevelOfKind(kind) ==
    CASE kind \in {"Hidden", "Private"} -> "Hidden"
      [] kind = "Internal"              -> "Internal"
      [] kind = "Public"                -> "Public"

IsSentinel(kind) == kind \in {"Hidden", "Private", "Internal", "Public"}

\* the level that governs line L: that of the last sentinel on a line <= L
GoverningLevel(kinds, L) ==
    LET S == { i \in 0..L : IsSentinel(kinds[i + 1]) } IN
    IF S = {} THEN "Public"
    ELSE LevelOfKind(kinds[(CHOOSE i \in S : \A j \in S : j <= i) + 1])

\* C7: after the scan every line L of the table holds the level of the last
\* recognized sentinel on a line <= L, or Public if there is none; "//@hidden:"
\* on line 5 and "//@public:" on line 10 give Public for lines 0-4, Hidden for
\* lines 5-9 and Public from line 10 on.
C7_VisibilityTable ==
    pc = "scanned" =>
        /\ DOMAIN ret = 0..(Len(arg.kinds) - 1)
        /\ \A L \in DOMAIN ret : ret[L] = GoverningLevel(arg.kinds, L)
        /\ (\A k \in 1..Len(arg.kinds) : ~IsSentinel(arg.kinds[k])) =>
              \A L \in DOMAIN ret : ret[L] = "Public"
        /\ arg = SentinelExample =>
              ret = [L \in 0..11 |-> IF 5 <= L /\ L <= 9 THEN "Hidden" ELSE "Public"]

\* the table of the example file has been computed
C7_Witness ==
    /\ pc = "scanned"
    /\ arg = SentinelExample
    /\ ret[5] = "Hidden"
    /\ ret[10] = "Public"

----------------------------------------------------------------------------
(* The boundary scanner.                                                   *)

Locations == {"Before", "AfterParam", "AfterEnumCase", "AfterGenericParam", "AfterSemicolon"}

\* isBefore / isAfter of a Location and of a MarkupType
isBeforeLocation(location) == location = "Before"
isAfterLocation(location)  == location # "Before"
isBeforeType(type) == "Before" \in getFlags(type)
isAfterType(type)  == "After" \in getFlags(type)

scanDirection(location) == IF isBeforeLocation(location) THEN -1 ELSE 1

Continue(openCount) == [done |-> FALSE, value |-> -1, openCount |-> openCount]
Return(value, openCount) == [done |-> TRUE, value |-> value, openCount |-> openCount]

\* a depth count that is let go negative
adjustDepthUnchecked(openCount) == Continue(openCount)

\* openCount after a bracket: the scan fails once it is negative
adjustDepth(openCount) ==
    IF openCount < 0 THEN Return(-1, openCount) ELSE Continue(openCount)

\* a scanner that takes a comma or a closing parenthesis at any depth
scanStepAnyDepth(tok, i, openCount, location) ==
    IF tok.type \in {"Comma", "RParent"} /\ location = "AfterParam"
    THEN Return(i + 1, openCount)
    ELSE Continue(openCount)

\* the body of the loop of _findStartIndex for the token tok at index i:
\* whether the function returns, what it returns, and openCount afterwards
ScanStep(tok, i, openCount, location) ==
    LET direction == scanDirection(location) IN
    CASE tok.type \in {"LBrace", "LBracket", "LParent", "OpLess"} ->
            adjustDepth(openCount + direction)
      [] tok.type = "RBracket" ->
            adjustDepth(openCount - direction)
      [] tok.type = "OpGreater" ->
            IF location = "AfterGenericParam" /\ openCount = 0
            THEN Return(i + 1, openCount)
            ELSE adjustDepth(openCount - direction)
      [] tok.type = "RParent" ->
            IF openCount = 0 /\ location = "AfterParam"
            THEN Return(i + 1, openCount)
            ELSE adjustDepth(openCount - direction)
      [] tok.type = "RBrace" ->
            IF location = "Before" \/ location = "AfterEnumCase"
            THEN Return(-1, openCount)
            ELSE Continue(openCount)
      [] tok.type \in {"BlockComment", "LineComment"} ->
            IF openCount = 0
            THEN LET markupType == findMarkupType(tok) IN
                 IF isBeforeLocation(location) /\ isBeforeType(markupType)
                 THEN Return(i, openCount)
                 ELSE IF isAfterLocation(location) /\ isAfterType(markupType)
                 THEN Return(i, openCount)
                 ELSE Continue(openCount)
            ELSE Continue(openCount)
      [] tok.type = "Comma" ->
            IF openCount = 0
            THEN IF location \in {"AfterParam", "AfterEnumCase", "AfterGenericParam"}
                 THEN Return(i + 1, openCount)
                 ELSE IF location = "Before"
                 THEN Return(-1, openCount)
                 ELSE Continue(openCount)
            ELSE Continue(openCount)
      [] tok.type = "Semicolon" ->
            IF location = "Before"
            THEN Return(-1, openCount)
            ELSE IF openCount = 0 /\ location = "AfterSemicolon"
            THEN Return(i + 1, openCount)
            ELSE Continue(openCount)
      [] OTHER -> Continue(openCount)

\* the one element of a set of one element; Only({ e(x) : x \in {v} }) is e(v)
\* with v worked out once
Only(S) == CHOOSE x \in S : TRUE

\* the loop of _findStartIndex from index i on
RECURSIVE findStartLoop(_, _, _, _)
findStartLoop(toks, i, openCount, location) ==
    IF i < 0 \/ i >= Len(toks) THEN -1
    ELSE Only({ IF s.done THEN s.value
                ELSE findStartLoop(toks, i + scanDirection(location), s.openCount, location) :
                s \in {ScanStep(At(toks, i), i, openCount, location)} })

\* DocMarkupExtractor::_findStartIndex
_findStartIndex(toks, tokIndex, location) == findStartLoop(toks, tokIndex, 0, location)

----------------------------------------------------------------------------
(* SpecScan: one boundary scan, the token at each index supplied as the    *)
(* scan reaches it.  arg is [location, tokIndex, count]; scanIndex and       *)
(* scanDepth are the loop's i and openCount, scanTok the token read last.  nest follows  *)
(* the real bracket structure of the tokens read so far: the brackets      *)
(* still open in scan direction, whether the scan has met a bracket that   *)
(* closes the construct the anchor lies in (left), whether the brackets    *)
(* read nest properly (balanced), whether only parentheses, square         *)
(* brackets, commas, names and comments were read (plain), and whether a   *)
(* comma or closing parenthesis of the anchor's own list was read (ended), *)
(* and whether a comma was read inside a parenthesis (inner).              *)

Plain(type, content) == Token(type, content, 0, 0, 0)

ScanTokens ==
    { Plain(t, <<>>) : t \in {"LBrace", "RBrace", "LBracket", "RBracket", "LParent", "RParent",
                              "OpLess", "OpGreater", "Comma", "Semicolon", "Identifier"} }
    \cup { Plain("LineComment", <<"/", "/", "/", "a">>),
           Plain("BlockComment", <<"/", "*", "*", "<", "a", "*", "/">>),
           Plain("LineComment", <<"/", "/", "a">>) }

BracketKind(type) ==
    CASE type \in {"LBrace", "RBrace"}     -> "Brace"
      [] type \in {"LBracket", "RBracket"} -> "Bracket"
      [] type \in {"LParent", "RParent"}   -> "Parent"
      [] type \in {"OpLess", "OpGreater"}  -> "Angle"

Openers == {"LBrace", "LBracket", "LParent", "OpLess"}
Closers == {"RBrace", "RBracket", "RParent", "OpGreater"}

\* nest after a token of the given type is read in the given direction
NestAfter(n, type, direction) ==
    LET enters == IF direction = 1 THEN Openers ELSE Closers
        leaves == IF direction = 1 THEN Closers ELSE Openers
        n1 == [n EXCEPT !.plain = n.plain /\ type \in {"LParent", "RParent", "LBracket",
                                        "RBracket", "Comma", "Identifier",
                                        "LineComment", "BlockComment"},
                        !.ended = n.ended \/ (n.stack = <<>> /\ type \in {"Comma", "RParent"}),
                        !.inner = n.inner \/ (n.stack # <<>> /\ Head(n.stack) = "Parent"
                                              /\ type = "Comma")]
    IN  IF type \in enters
        THEN [n1 EXCEPT !.stack = <<BracketKind(type)>> \o n.stack]
        ELSE IF type \in leaves
        THEN IF n.stack = <<>>
             THEN [n1 EXCEPT !.left = TRUE]
             ELSE IF Head(n.stack) = BracketKind(type)
             THEN [n1 EXCEPT !.stack = Tail(n.stack)]
             ELSE [n1 EXCEPT !.balanced = FALSE]
        ELSE n1

InitScan ==
    /\ SearchIdle
    /\ BatchIdle
    /\ pc = "scan"
    /\ \E location \in Locations, count \in 1..MaxScanTokens : \E tokIndex \in 0..(count - 1) :
          /\ arg = [location |-> location, tokIndex |-> tokIndex, count |-> count]
          /\ scanIndex = tokIndex
    /\ scanDepth = 0
    /\ scanTok = Plain("None", <<>>)
    /\ nest = [stack |-> <<>>, left |-> FALSE, balanced |-> TRUE, plain |-> TRUE,
               ended |-> FALSE, inner |-> FALSE]
    /\ ret = -1

\* one round of the loop of _findStartIndex; the anchor is a name
ScanToken ==
    /\ pc = "scan"
    /\ 0 <= scanIndex /\ scanIndex < arg.count
    /\ \E t \in ScanTokens :
          /\ (scanIndex = arg.tokIndex) => t.type = "Identifier"
          /\ scanTok' = t
          /\ nest' = NestAfter(nest, t.type, scanDirection(arg.location))
          /\ LET s == ScanStep(t, scanIndex, scanDepth, arg.location) IN
                /\ scanDepth' = s.openCount
                /\ IF s.done
                   THEN pc' = "returned" /\ ret' = s.value /\ scanIndex' = scanIndex
                   ELSE /\ pc' = "scan" /\ ret' = ret
                        /\ scanIndex' = scanIndex + scanDirection(arg.location)
    /\ UNCHANGED <<arg, searchVars, batchVars>>

\* the loop ends at the stream boundary
ScanBoundary ==
    /\ pc = "scan"
    /\ (scanIndex < 0 \/ scanIndex >= arg.count)
    /\ pc' = "returned"
    /\ ret' = -1
    /\ UNCHANGED <<arg, scanIndex, scanDepth, scanTok, nest, searchVars, batchVars>>

NextScan == ScanToken \/ ScanBoundary

SpecScan == InitScan /\ [][NextScan]_vars

\* C8: in a backward (Before) scan over properly nested brackets, the scan never
\* goes on past the opening delimiter of the construct the anchor lies in, and
\* so never returns a comment from outside it: at that delimiter the depth
\* turns negative and the scan fails.
C8_BeforeScanStaysInside ==
    (arg.location = "Before" /\ nest.balanced /\ nest.left) =>
        /\ pc = "returned"
        /\ ret = -1
        /\ scanDepth < 0 \/ scanTok.type \notin Openers

\* a Before scan has failed at the opening delimiter of the enclosing
\* construct, after it went through a nested group with a comma in it
C8_Witness ==
    /\ arg.location = "Before"
    /\ nest.balanced /\ nest.left /\ nest.inner
    /\ scanTok.type = "LParent"
    /\ pc = "returned" /\ ret = -1

\* C9: in a forward AfterParam scan over a default value made of names, commas
\* and properly nested parentheses (and square brackets), a comma or closing
\* parenthesis is taken as the parameter's delimiter only when no bracket is
\* open, and the scan never goes on past the first such comma or parenthesis.
C9_AfterParamSkipsNested ==
    (arg.location = "AfterParam" /\ nest.plain /\ nest.balanced) =>
        /\ (pc = "returned" /\ ret = scanIndex + 1) =>
              /\ scanTok.type \in {"Comma", "RParent"}
              /\ nest.stack = <<>>
              /\ nest.ended
        /\ nest.ended => (pc = "returned" /\ ret = scanIndex + 1)

\* an AfterParam scan has taken the comma that follows a parenthesized group
\* with a comma in it
C9_Witness ==
    /\ arg.location = "AfterParam"
    /\ nest.plain /\ nest.balanced /\ nest.inner
    /\ pc = "returned" /\ ret = scanIndex + 1
    /\ scanTok.type = "Comma"

----------------------------------------------------------------------------
(* The markup locator.                                                     *)

\* the token at index i of a list of count tokens; index count is one past
\* the end of the buffer, where whatever lies there (oob) is read
TokAt(toks, oob, i) == IF i < Len(toks) THEN At(toks, i) ELSE oob

\* the number of line breaks in a text
RECURSIVE lineBreaks(_)
lineBreaks(s) ==
    IF Len(s) = 0 THEN 0 ELSE (IF Head(s) = NL THEN 1 ELSE 0) + lineBreaks(Tail(s))

\* DocMarkupExtractor::_isTokenOnLineIndex
_isTokenOnLineIndex(type, t, lineIndex) ==
    IF "IsBlock" \in getFlags(type)
    THEN t.line = lineIndex \/ t.line + lineBreaks(t.content) = lineIndex
    ELSE t.line = lineIndex

\* FoundMarkup::reset
NotFound ==
    [res |-> "NOT_FOUND", type |-> "None", location |-> "None", start |-> 0, end |-> 0]

\* the while loop of _findMarkup: the value of endIndex when the loop breaks
RECURSIVE extendRun(_, _, _, _, _, _, _)
extendRun(toks, oob, type, startIndex, endIndex, expectedLineIndex, searchDirection) ==
    LET e == endIndex + searchDirection
        x == expectedLineIndex + searchDirection
    IN  IF e < 0 \/ e >= Len(toks) THEN e
        ELSE IF findMarkupType(At(toks, e)) # type THEN e
        ELSE IF _isTokenOnLineIndex(type, TokAt(toks, oob, startIndex), x) THEN e
        ELSE extendRun(toks, oob, type, startIndex, e, x, searchDirection)

\* a locator that leaves the range as the scan direction gave it
markupAtUnordered(toks, oob, location, startIndex, lineIndex) ==
    LET searchDirection == IF isBeforeLocation(location) THEN -1 ELSE 1
        type            == findMarkupType(TokAt(toks, oob, startIndex))
        flags           == getFlags(type)
        requiredFlag    == IF isBeforeLocation(location) THEN "Before" ELSE "After"
    IN  IF lineIndex < 0 \/ requiredFlag \notin flags THEN NotFound
        ELSE [res      |-> "OK",
              type     |-> type,
              location |-> location,
              start    |-> startIndex,
              end      |-> (IF "IsMultiToken" \in flags
                            THEN extendRun(toks, oob, type, startIndex, startIndex,
                                           lineIndex, searchDirection) - searchDirection
                            ELSE startIndex) + 1]

\* _findMarkup once the token at startIndex is accepted: its run is extended
\* and the range put in order
runSpan(toks, oob, location, startIndex, lineIndex, type) ==
    Only({
        [res      |-> "OK",
         type     |-> type,
         location |-> location,
         start    |-> IF endIndex < startIndex THEN endIndex ELSE startIndex,
         end      |-> (IF endIndex < startIndex THEN startIndex ELSE endIndex) + 1] :
        endIndex \in {IF "IsMultiToken" \in getFlags(type)
                      THEN extendRun(toks, oob, type, startIndex, startIndex, lineIndex,
                                     IF isBeforeLocation(location) THEN -1 ELSE 1)
                           - (IF isBeforeLocation(location) THEN -1 ELSE 1)
                      ELSE startIndex} })

\* a locator that takes a markup comment of either direction
markupAtAnyDirection(toks, oob, location, startIndex, lineIndex) ==
    LET type == findMarkupType(TokAt(toks, oob, startIndex)) IN
    IF lineIndex < 0 \/ getFlags(type) = {} THEN NotFound
    ELSE runSpan(toks, oob, location, startIndex, lineIndex, type)

\* _findMarkup from the point where startIndex is accepted: the token at
\* startIndex is classified and its run extended; lineIndex is the line of the
\* token at startIndex - 1
markupAt(toks, oob, location, startIndex, lineIndex) ==
    LET type         == findMarkupType(TokAt(toks, oob, startIndex))
        flags        == getFlags(type)
        requiredFlag == IF isBeforeLocation(location) THEN "Before" ELSE "After"
    IN  IF lineIndex < 0 \/ requiredFlag \notin flags THEN NotFound
        ELSE runSpan(toks, oob, location, startIndex, lineIndex, type)

\* a locator that gives up only when the scan has failed: index 0 is taken as
\* the start of a span like any other index
findMarkupFromZero(toks, oob, tokIndex, location) ==
    Only({
    IF startIndex < 0 THEN NotFound
    ELSE markupAt(toks, oob, location, startIndex,
                  At(toks, IF startIndex = 0 THEN 0 ELSE startIndex - 1).line) :
    startIndex \in {_findStartIndex(toks, tokIndex, location)} })

\* DocMarkupExtractor::_findMarkup(info, location, out)
_findMarkup(toks, oob, tokIndex, location) ==
    Only({
    IF startIndex <= 0 THEN NotFound
    ELSE markupAt(toks, oob, location, startIndex, At(toks, startIndex - 1).line) :
    startIndex \in {_findStartIndex(toks, tokIndex, location)} })

\* a locator whose later probes write into the result: the last location that
\* has markup wins
findMarkupLocsLastWins(toks, oob, tokIndex, locs) ==
    LET hits == { k \in 1..Len(locs) : _findMarkup(toks, oob, tokIndex, locs[k]).res = "OK" }
    IN  [found    |-> IF hits = {} THEN NotFound
                      ELSE _findMarkup(toks, oob, tokIndex,
                                       locs[CHOOSE k \in hits : \A h \in hits : h <= k]),
         others   |-> IF hits = {} THEN 0 ELSE Cardinality(hits) - 1,
         warnings |-> 0]

\* DocMarkupExtractor::_findFirstMarkup: the first location (from 0-based k on)
\* that gives markup, with its index
RECURSIVE _findFirstMarkup(_, _, _, _, _)
_findFirstMarkup(toks, oob, tokIndex, locs, k) ==
    IF k >= Len(locs) THEN [found |-> NotFound, index |-> -1]
    ELSE Only({ IF f.res = "OK" THEN [found |-> f, index |-> k]
                ELSE _findFirstMarkup(toks, oob, tokIndex, locs, k + 1) :
                f \in {_findMarkup(toks, oob, tokIndex, locs[k + 1])} })

\* DocMarkupExtractor::_findMarkup(info, locs, locCount, out): the markup of the
\* first location that has some; the later locations are tried, and nothing is
\* reported for those that have markup too (others counts them)
_findMarkupLocs(toks, oob, tokIndex, locs) ==
    Only({
    [found    |-> first.found,
     others   |-> IF first.found.res = "OK"
                  THEN Cardinality({ k \in (first.index + 1)..(Len(locs) - 1) :
                            _findMarkup(toks, oob, tokIndex, locs[k + 1]).res = "OK" })
                  ELSE 0,
     warnings |-> 0] :
    first \in {_findFirstMarkup(toks, oob, tokIndex, locs, 0)} })

\* DocMarkupExtractor::SearchStyle, None apart
SearchStyles == {"EnumCase", "Param", "Before", "Function", "Variable", "GenericParam"}

\* the locations of a SearchStyle, in the order they are tried
styleLocations(searchStyle) ==
    CASE searchStyle = "EnumCase"     -> <<"Before", "AfterEnumCase">>
      [] searchStyle = "Param"        -> <<"Before", "AfterParam">>
      [] searchStyle = "Before"       -> <<"Before">>
      [] searchStyle = "Function"     -> <<"Before">>
      [] searchStyle = "Variable"     -> <<"Before", "AfterSemicolon">>
      [] searchStyle = "GenericParam" -> <<"Before", "AfterGenericParam">>
      [] OTHER                        -> <<>>

\* the kind of a declaration decides its search style; a GenericDecl has an
\* inner declaration
DeclKinds == {"EnumCaseDecl", "ParamDecl", "CallableDecl", "VarDecl", "TypeDefDecl",
              "AssocTypeDecl", "GenericTypeParamDecl", "GenericValueParamDecl", "OtherDecl",
              "GenericDecl"}

\* a getSearchStyle that does not look into a generic
getSearchStyleOuter(decl) ==
    CASE decl.kind = "EnumCaseDecl" -> "EnumCase"
      [] decl.kind = "ParamDecl" -> "Param"
      [] decl.kind = "CallableDecl" -> "Function"
      [] decl.kind \in {"VarDecl", "TypeDefDecl", "AssocTypeDecl"} -> "Variable"
      [] decl.kind \in {"GenericTypeParamDecl", "GenericValueParamDecl"} -> "GenericParam"
      [] OTHER -> "Before"

\* DocMarkupExtractor::getSearchStyle
RECURSIVE getSearchStyle(_)
getSearchStyle(decl) ==
    CASE decl.kind = "EnumCaseDecl" -> "EnumCase"
      [] decl.kind = "ParamDecl" -> "Param"
      [] decl.kind = "CallableDecl" -> "Function"
      [] decl.kind \in {"VarDecl", "TypeDefDecl", "AssocTypeDecl"} -> "Variable"
      [] decl.kind = "GenericDecl" -> getSearchStyle(decl.inner)
      [] decl.kind \in {"GenericTypeParamDecl", "GenericValueParamDecl"} -> "GenericParam"
      [] OTHER -> "Before"

\* DocMarkupExtractor::_findMarkup(info, searchStyle, out)
_findMarkupStyle(toks, oob, tokIndex, searchStyle) ==
    _findMarkupLocs(toks, oob, tokIndex, styleLocations(searchStyle))

\* a driver step for which markup that is not found is a failure
locateAndExtractStrict(toks, oob, tokIndex, searchStyle) ==
    LET f == _findMarkupStyle(toks, oob, tokIndex, searchStyle).found IN
    IF f.res = "OK"
    THEN [res |-> "OK", found |-> f, text |-> _extractMarkup(toks \o <<oob>>, f).text,
          others |-> 0, warnings |-> 0]
    ELSE [res |-> "NOT_FOUND", found |-> f, text |-> <<>>, others |-> 0, warnings |-> 0]

\* what the batch driver does for one request once it has the token index:
\* locate the markup and, if there is some, extract its text
locateAndExtract(toks, oob, tokIndex, searchStyle) ==
    Only({
    IF m.found.res = "OK"
    THEN Only({ [res |-> x.res, found |-> m.found, text |-> x.text, others |-> m.others,
                 warnings |-> m.warnings] :
                x \in {_extractMarkup(toks \o <<oob>>, m.found)} })
    ELSE [res |-> "OK", found |-> m.found, text |-> <<>>, others |-> 0, warnings |-> 0] :
    m \in {_findMarkupStyle(toks, oob, tokIndex, searchStyle)} })

----------------------------------------------------------------------------
(* SpecLocate: the markup of one declaration in one token stream.          *)
(* arg is [toks, tokIndex, searchStyle]; every stream ends with the        *)
(* lexer's end-of-file token.                                              *)

SideKinds == {"Doc", "DocBlank", "Bang", "Ident", "Semi"}

Letters == <<"a", "b", "c", "d", "e", "f", "g", "h">>

\* the token of the given kind at index k (0-based) of a stream; side is
\* "Before" for the tokens in front of the anchor and "After" for those behind
SideToken(kind, side, k, line) ==
    LET after  == IF side = "After" THEN <<"<">> ELSE <<>>
        letter == <<Letters[(k % Len(Letters)) + 1]>>
    IN  CASE kind = "Doc" ->
               Token("LineComment",
                     <<"/", "/", "/">> \o after \o Spaces(1 + (k % 2)) \o letter, line, 0, k)
          [] kind = "DocBlank" ->
               Token("LineComment", <<"/", "/", "/">> \o after, line, 0, k)
          [] kind = "Bang" ->
               Token("LineComment", <<"/", "/", "!">> \o after \o <<" ">> \o letter, line, 0, k)
          [] kind = "Block" ->
               Token("BlockComment",
                     <<"/", "*", "*">> \o after \o <<" ">> \o letter \o <<"*", "/">>, line, 0, k)
          [] kind = "Semi" ->
               Token("Semicolon", <<";">>, line, 0, k)
          [] kind = "EndOfFile" ->
               Token("EndOfFile", <<>>, line, 0, k)
          [] kind \in {"Comma", "RParent", "RBrace", "OpGreater"} ->
               Token(kind, <<kind>>, line, 0, k)
          [] OTHER ->
               Token("Identifier", letter, line, 0, k)

IsLineKind(kind) == kind \in {"Doc", "DocBlank", "Bang"}

\* a line comment ends its line: the token after it lies on a later line
GapsFit(kinds, gaps) ==
    \A k \in 2..Len(kinds) : IsLineKind(kinds[k - 1]) => gaps[k] >= 1

RECURSIVE SumTo(_, _)
SumTo(gaps, k) == IF k = 0 THEN 0 ELSE gaps[k] + SumTo(gaps, k - 1)

\* the stream of the given kinds, token k lying gaps[k] lines below token k - 1
StreamOf(kinds, gaps, sides) ==
    [k \in 1..Len(kinds) |-> SideToken(kinds[k], sides[k], k - 1, SumTo(gaps, k))]

\* /// Computes the square.        (here: "/// a")
\* /// @param x input value        (here: "/// b")
\* int square(int x);
SquareExample ==
    <<Token("LineComment", <<"/", "/", "/", " ", "a">>, 0, 0, 0),
      Token("LineComment", <<"/", "/", "/", " ", "b">>, 1, 0, 1),
      Token("Identifier", <<"i", "n", "t">>, 2, 0, 2),
      Token("Identifier", <<"s", "q">>, 2, 4, 3),
      Token("LParent", <<"(">>, 2, 6, 4),
      Token("Identifier", <<"i", "n", "t">>, 2, 7, 5),
      Token("Identifier", <<"x">>, 2, 11, 6),
      Token("RParent", <<")">>, 2, 12, 7),
      Token("Semicolon", <<";">>, 2, 13, 8),
      Token("EndOfFile", <<>>, 3, 0, 9)>>

\* a '///' comment, a blank line, three '///' comments on adjacent lines and
\* the declaration
DistantFourthExample ==
    <<Token("Identifier", <<"x">>, 0, 0, 0),
      Token("LineComment", <<"/", "/", "/", " ", "z">>, 1, 0, 1),
      Token("LineComment", <<"/", "/", "/", " ", "a">>, 3, 0, 2),
      Token("LineComment", <<"/", "/", "/", " ", "b">>, 4, 0, 3),
      Token("LineComment", <<"/", "/", "/", " ", "c">>, 5, 0, 4),
      Token("Identifier", <<"y">>, 6, 0, 5),
      Token("Semicolon", <<";">>, 6, 1, 6),
      Token("EndOfFile", <<>>, 7, 0, 7)>>

\* nothing lies past the end-of-file token that a scan could reach
NoToken == Token("None", <<>>, 0, 0, 0)

\* m; then a declaration ended by a delimiter, with the comments front in
\* front of it (on lines of their own) and back behind the delimiter
DelimitedStream(delimiter, front, back) ==
    StreamOf(<<"Ident", "Semi">> \o front \o <<"Ident", delimiter>> \o back \o <<"EndOfFile">>,
             <<0, 0>> \o [k \in 1..Len(front) |-> 1] \o <<1, 0>>
               \o [k \in 1..Len(back) |-> 0] \o <<1>>,
             [k \in 1..(5 + Len(front) + Len(back)) |->
                IF k <= 2 + Len(front) THEN "Before" ELSE "After"])

\* the declarations of the given kind: the kind itself and generics around it
RECURSIVE DeclsOfKind(_, _)
DeclsOfKind(kind, depth) ==
    IF depth = 0 THEN {[kind |-> kind]}
    ELSE {[kind |-> kind]} \cup
         {[kind |-> "GenericDecl", inner |-> d] : d \in DeclsOfKind(kind, depth - 1)}

InitLocate ==
    /\ ScanIdle
    /\ SearchIdle
    /\ BatchIdle
    /\ ret = <<>>
    /\ \/ \* the tokens in front of the declaration vary
          \E n \in 0..MaxSide : \E kinds \in [1..n -> SideKinds], gaps \in [1..n -> 0..2] :
          \E tailKinds \in {<<"Ident", "Semi", "EndOfFile">>,
                            <<"Ident", "Semi", "Doc", "EndOfFile">>} :
             /\ GapsFit(kinds, gaps)
             /\ n > 0 => gaps[1] = 0
             /\ arg = [toks |-> StreamOf(kinds \o tailKinds,
                                         gaps \o <<1>> \o [k \in 1..(Len(tailKinds) - 1) |->
                                                    IF k = Len(tailKinds) - 1 THEN 1 ELSE 0],
                                         [k \in 1..(n + Len(tailKinds)) |->
                                            IF k <= n THEN "Before" ELSE "After"]),
                       tokIndex |-> n,
                       searchStyle |-> "Variable"]
       \/ \* the tokens behind the declaration vary
          \E n \in 0..MaxSide : \E kinds \in [1..n -> SideKinds], gaps \in [1..n -> 0..2] :
          \E headKinds \in {<<"Semi", "Ident">>, <<"Doc", "Ident">>} :
             /\ GapsFit(kinds, gaps)
             /\ arg = [toks |-> StreamOf(headKinds \o kinds \o <<"EndOfFile">>,
                                         <<0, 1>> \o gaps \o <<1>>,
                                         [k \in 1..(n + 3) |->
                                            IF k <= 2 THEN "Before" ELSE "After"]),
                       tokIndex |-> 1,
                       searchStyle |-> "Variable"]
       \/ \* every search style, at a declaration ended by any delimiter, with
          \* or without a comment in front and a comment behind the delimiter
          \E searchStyle \in SearchStyles :
          \E delimiter \in {"Semi", "Comma", "RParent", "RBrace", "OpGreater"} :
          \E front \in {<<>>, <<"Doc">>, <<"Bang">>, <<"Block">>, <<"Block", "Block">>},
             back \in {<<>>, <<"Doc">>, <<"Bang">>, <<"Block">>, <<"Block", "Block">>} :
             arg = [toks |-> DelimitedStream(delimiter, front, back),
                       tokIndex |-> 2 + Len(front),
                       searchStyle |-> searchStyle]
       \/ \* a declaration of every kind, bare or inside generics, whose search
          \* style is still to be worked out
          \E kind \in DeclKinds \ {"GenericDecl"} : \E decl \in DeclsOfKind(kind, MaxGenericDepth) :
          \E delimiter \in {"Semi", "Comma", "RParent", "RBrace", "OpGreater"} :
          \E front \in {<<>>, <<"Doc">>}, back \in {<<>>, <<"Doc">>} :
             arg = [toks |-> DelimitedStream(delimiter, front, back),
                       tokIndex |-> 2 + Len(front),
                       decl |-> decl]
       \/ \* a declaration ended by a delimiter, and on the next line the
          \* comment of the declaration that follows
          \E searchStyle \in SearchStyles :
          \E delimiter \in {"Semi", "Comma", "RParent", "RBrace", "OpGreater"} :
          \E next \in {"Doc", "Bang", "Block"} :
             arg = [toks |-> StreamOf(<<"Ident", "Semi", "Ident", delimiter, next, "Ident",
                                        "Semi", "EndOfFile">>,
                                      <<0, 0, 1, 0, 1, 1, 0, 1>>,
                                      [k \in 1..8 |-> "Before"]),
                       tokIndex |-> 2,
                       searchStyle |-> searchStyle]
       \/ arg = [toks |-> SquareExample, tokIndex |-> 2, searchStyle |-> "Variable"]
       \/ arg = [toks |-> DistantFourthExample, tokIndex |-> 5, searchStyle |-> "Variable"]
    /\ pc = IF "decl" \in DOMAIN arg THEN "style" ELSE "locate"

\* extract (module): item.searchStyle = getSearchStyle(decl)
GetSearchStyle ==
    /\ pc = "style"
    /\ pc' = "locate"
    /\ arg' = [toks |-> arg.toks, tokIndex |-> arg.tokIndex, decl |-> arg.decl,
               searchStyle |-> getSearchStyle(arg.decl)]
    /\ UNCHANGED <<ret, scanVars, searchVars, batchVars>>

\* _findMarkup(findInfo, searchStyle, foundMarkup) and _extractMarkup for the
\* declaration at arg.tokIndex
Locate ==
    /\ pc = "locate"
    /\ pc' = "located"
    /\ ret' = locateAndExtract(arg.toks, NoToken, arg.tokIndex, arg.searchStyle)
    /\ UNCHANGED <<arg, scanVars, searchVars, batchVars>>

NextLocate == GetSearchStyle \/ Locate

SpecLocate == InitLocate /\ [][NextLocate]_vars

IsSlashDoc(t) == t.type = "LineComment" /\ startsWith(t.content, <<"/", "/", "/">>)
                 /\ ~startsWith(t.content, <<"/", "/", "/", "<">>)

\* the index of the first comment of the run of '///' comments on consecutive
\* lines that ends right in front of the token at index a (a if there is none)
RunStart(toks, a) ==
    CHOOSE s \in 0..a :
        /\ \A j \in s..(a - 1) :
              /\ IsSlashDoc(At(toks, j))
              /\ j > s => At(toks, j).line = At(toks, j - 1).line + 1
        /\ s > 0 =>
              \/ ~IsSlashDoc(At(toks, s - 1))
              \/ s = a
              \/ At(toks, s).line # At(toks, s - 1).line + 1

\* the lines s..a-1 of a run without the 3-character prefix and without their
\* common indentation, each ended by a line break
RunText(toks, s, a) ==
    LET line(j) == tail(At(toks, j).content, 3)
        m       == Min({ LeadingSpaces(line(j)) : j \in s..(a - 1) })
    IN  Concat([k \in 1..(a - s) |-> tail(line(s + k - 1), m) \o <<NL>>])

\* C3 (as stated): a declaration directly preceded by a run of n >= 1 '///'
\* comments on consecutive lines gets, with the strategy (Before,
\* AfterSemicolon), exactly the n lines of the run, prefix and common
\* indentation removed; the square example gives its two lines.  (Stated for
\* runs without a white line, and not for a single comment that is the first
\* token of the stream: there the extractor gives less by its own rules.)
C3_RunBeforeDeclaration ==
    (pc = "located" /\ arg.searchStyle = "Variable") =>
        LET a == arg.tokIndex
            s == RunStart(arg.toks, a)
        IN  (/\ a - s >= 1
             /\ \A j \in s..(a - 1) : ~IsBlank(tail(At(arg.toks, j).content, 3))
             /\ ~(s = 0 /\ a = 1))
            => /\ ret.res = "OK"
               /\ ret.found.res = "OK"
               /\ ret.text = RunText(arg.toks, s, a)

\* C4 (as stated): every two consecutive tokens of a multi-token span lie on
\* adjacent lines.
C4_SpanHasNoLineGap ==
    (pc = "located" /\ ret.found.res = "OK" /\ "IsMultiToken" \in getFlags(ret.found.type)) =>
        \A j \in ret.found.start..(ret.found.end - 2) :
            At(arg.toks, j + 1).line = At(arg.toks, j).line + 1

----------------------------------------------------------------------------
(* The batch driver and the module-level extraction.                       *)

\* the files of the source manager, as the lexer (with TokenizeComments) reads
\* them; loc is the offset of a token in its file
\*    m;                          n;
\*    ///  a                       /** c */
\*    x;                           z;
\*    //@ private:                 /**/
\*    y; ///< b                    w;
FileA ==
    <<Token("Identifier",  <<"m">>, 0, 0, 0),
      Token("Semicolon",   <<";">>, 0, 1, 1),
      Token("LineComment", <<"/", "/", "/", " ", " ", "a">>, 1, 0, 3),
      Token("Identifier",  <<"x">>, 2, 0, 10),
      Token("Semicolon",   <<";">>, 2, 1, 11),
      Token("LineComment", <<"/", "/", "@", " ", "p", "r", "i", "v", "a", "t", "e", ":">>, 3, 0, 13),
      Token("Identifier",  <<"y">>, 4, 0, 26),
      Token("Semicolon",   <<";">>, 4, 1, 27),
      Token("LineComment", <<"/", "/", "/", "<", " ", "b">>, 4, 3, 29),
      Token("EndOfFile",   <<>>, 5, 0, 36)>>

FileB ==
    <<Token("Identifier",   <<"n">>, 0, 0, 0),
      Token("Semicolon",    <<";">>, 0, 1, 1),
      Token("BlockComment", <<"/", "*", "*", " ", "c", " ", "*", "/">>, 1, 0, 3),
      Token("Identifier",   <<"z">>, 2, 0, 12),
      Token("Semicolon",    <<";">>, 2, 1, 13),
      Token("BlockComment", <<"/", "*", "*", "/">>, 3, 0, 15),
      Token("Identifier",   <<"w">>, 4, 0, 20),
      Token("Semicolon",    <<";">>, 4, 1, 21),
      Token("EndOfFile",    <<>>, 5, 0, 23)>>

SourceFiles ==
    [a |-> [toks |-> FileA, lineCount |-> 6],
     b |-> [toks |-> FileB, lineCount |-> 6]]

\* the views of the source manager: view 3 is a second view of file a
SourceViews ==
    <<[file |-> "a", begin |-> 100, end |-> 136],
      [file |-> "b", begin |-> 200, end |-> 223],
      [file |-> "a", begin |-> 300, end |-> 336]>>

\* the declarations a module is made of: the variables x, y and z, a function
\* at the place of y, and y once more through the second view of file a
ModuleDecls ==
    {[kind |-> "VarDecl", loc |-> 110], [kind |-> "VarDecl", loc |-> 126],
     [kind |-> "CallableDecl", loc |-> 126], [kind |-> "VarDecl", loc |-> 212],
     [kind |-> "VarDecl", loc |-> 326]}

\* the requests a caller of the batch makes: the same places, and requests
\* without a search style
BatchRequests ==
    {[sourceLoc |-> 110, searchStyle |-> "Variable"],
     [sourceLoc |-> 126, searchStyle |-> "Variable"],
     [sourceLoc |-> 212, searchStyle |-> "Variable"],
     [sourceLoc |-> 326, searchStyle |-> "Variable"],
     [sourceLoc |-> 110, searchStyle |-> "None"],
     [sourceLoc |-> 212, searchStyle |-> "None"]}

\* SourceRange::contains
contains(v, l) == SourceViews[v].begin <= l /\ l <= SourceViews[v].end

\* SourceManager::findSourceView
findSourceView(l) == CHOOSE v \in 1..Len(SourceViews) : contains(v, l)

\* Lexer::lexAllTokens on a view: the tokens of the view's file, located in the
\* view's range
lexAllTokens(v) ==
    LET toks == SourceFiles[SourceViews[v].file].toks IN
    [k \in 1..Len(toks) |-> [toks[k] EXCEPT !.loc = SourceViews[v].begin + @]]

\* what the lexer reports to the sink for a view: the files are well-formed
lexDiagnostics(v) == <<>>

\* SourceFile::calcLineIndexFromOffset, for the offset of a token
calcLineIndexFromOffset(file, offset) ==
    LET toks == SourceFiles[file].toks
        k    == CHOOSE j \in 1..Len(toks) :
                    /\ toks[j].loc <= offset
                    /\ \A h \in 1..Len(toks) : toks[h].loc <= offset => h <= j
    IN  toks[k].line

\* the loop of _findTokenIndex
RECURSIVE findTokenLoop(_, _, _, _)
findTokenLoop(l, toks, lo, hi) ==
    IF lo + 1 < hi
    THEN Only({ IF At(toks, mid).loc = l THEN mid
                ELSE IF At(toks, mid).loc <= l THEN findTokenLoop(l, toks, mid, hi)
                ELSE findTokenLoop(l, toks, lo, mid) :
                mid \in {(hi + lo) \div 2} })
    ELSE -1

\* _findTokenIndex
_findTokenIndex(l, toks) == findTokenLoop(l, toks, 0, Len(toks))

\* List::sort: every order of the elements the comparison allows (elements that
\* compare equal can come out in either order); less[i, j] is the comparison of
\* seq[i] with seq[j]
SortedOrders(seq, less) ==
    IF Len(seq) = 0 THEN {<<>>}
    ELSE { [k \in 1..Len(seq) |-> seq[p[k]]] :
             p \in { q \in Permutations(1..Len(seq)) :
                       \A i, j \in 1..Len(seq) : i < j => ~less[q[j], q[i]] } }

\* the comparison of the first sort
lessLoc(a, b) == a.locOrOffset < b.locOrOffset

\* the comparison of the second sort
lessViewOffset(a, b) ==
    \/ a.viewIndex < b.viewIndex
    \/ a.viewIndex = b.viewIndex /\ a.locOrOffset < b.locOrOffset

\* entries.sort by location
sortByLoc(es) ==
    SortedOrders(es, [i \in 1..Len(es), j \in 1..Len(es) |-> lessLoc(es[i], es[j])])

\* entries.sort by view and offset
sortByViewOffset(es) ==
    SortedOrders(es, [i \in 1..Len(es), j \in 1..Len(es) |-> lessViewOffset(es[i], es[j])])

\* outViews.findFirstIndex: the index of the first view of the file, or -1
findFirstIndex(views, file) ==
    IF \E k \in 1..Len(views) : SourceViews[views[k]].file = file
    THEN (CHOOSE k \in 1..Len(views) :
              /\ SourceViews[views[k]].file = file
              /\ \A h \in 1..(k - 1) : SourceViews[views[h]].file # file) - 1
    ELSE -1

\* the loop that resolves the view of every entry, from (1-based) entry k on;
\* sourceView is 0 while it is the null pointer
RECURSIVE resolveLoop(_, _, _, _, _)
resolveLoop(es, k, sourceView, vIndex, views) ==
    IF k > Len(es) THEN [entries |-> es, outViews |-> views]
    ELSE LET l     == es[k].locOrOffset
             fresh == sourceView = 0 \/ ~contains(sourceView, l)
             sv    == IF fresh THEN findSourceView(l) ELSE sourceView
             found == findFirstIndex(views, SourceViews[sv].file)
             vi    == IF ~fresh THEN vIndex
                      ELSE IF found < 0 THEN Len(views) ELSE found
             vs    == IF fresh /\ found < 0 THEN Append(views, sv) ELSE views
         IN  resolveLoop([es EXCEPT ![k] = [@ EXCEPT !.viewIndex = vi,
                                                    !.locOrOffset = l - SourceViews[sv].begin]],
                         k + 1, sv, vi, vs)

\* a driver that runs the lexer for every entry
needsLexAlways(current, entry) == TRUE

\* the token list in hand belongs to another view than the entry
needsLex(current, entry) == current # entry.viewIndex

\* a driver that gives every result the visibility of the first line
dstVisibiltyOfFirstLine(table, lineIndex) == table[0]

\* dst.visibilty of a request on line lineIndex
dstVisibilty(table, lineIndex) == table[lineIndex]

\* a default-constructed SearchItemOutput
NoOutput == [viewIndex |-> -1, inputIndex |-> -1, visibilty |-> "Public", text |-> <<>>]

\* dst.inputIndex of the result written for entry (the i-th of the sorted list)
dstInputIndexByPosition(entry, i) == i

dstInputIndex(entry, i) == entry.inputIndex

\* the declaration that the i-th output item is set back to
setBackDeclByPosition(outputItem, i) == i

setBackDecl(outputItem, i) == outputItem.inputIndex

\* Spec: a module-level extraction (arg.caller = "module") of up to MaxDecls
\* declarations, or a batch a caller submits directly (requests can then have
\* the search style None)
Init ==
    /\ ScanIdle
    /\ SearchIdle
    /\ ret = <<>>
    /\ entries = <<>> /\ outViews = <<>> /\ out = <<>> /\ entryIndex = 0
    /\ viewIndex = -1 /\ tokenList = <<>> /\ lineVisibility = <<>>
    /\ lexed = <<>> /\ outDoc = <<>> /\ sink = <<>>
    /\ \E n \in 0..MaxDecls :
          \/ \E ds \in [1..n -> ModuleDecls] :
                /\ arg = [caller |-> "module"]
                /\ pc = "inputs"
                /\ decls = ds
                /\ inputs = <<>>
          \/ \E is \in [1..n -> BatchRequests] :
                /\ arg = [caller |-> "batch"]
                /\ pc = "entries"
                /\ decls = <<>>
                /\ inputs = is

\* extract (module): one SearchItemInput per declaration
BuildInputs ==
    /\ pc = "inputs"
    /\ inputs' = [i \in 1..Len(decls) |->
                    [sourceLoc |-> decls[i].loc, searchStyle |-> getSearchStyle(decls[i])]]
    /\ pc' = "entries"
    /\ UNCHANGED <<arg, ret, scanVars, searchVars, decls, entries, outViews, out, entryIndex, viewIndex,
                   tokenList, lineVisibility, lexed, outDoc, sink>>

\* extract (batch): the entries are built, sorted by location, given their view
\* and offset, and sorted by view and offset; out gets one slot per entry
SortEntries ==
    /\ pc = "entries"
    /\ \E byLoc \in sortByLoc([i \in 1..Len(inputs) |->
                                 [viewIndex   |-> -1,
                                  locOrOffset |-> inputs[i].sourceLoc,
                                  searchStyle |-> inputs[i].searchStyle,
                                  inputIndex  |-> i - 1]]) :
          LET r == resolveLoop(byLoc, 1, 0, -1, outViews) IN
          /\ outViews' = r.outViews
          /\ \E sorted \in sortByViewOffset(r.entries) :
                /\ entries' = sorted
                /\ out' = [i \in 1..Len(sorted) |-> NoOutput]
    /\ entryIndex' = 0
    /\ pc' = "extract"
    /\ UNCHANGED <<arg, ret, scanVars, searchVars, decls, inputs, viewIndex, tokenList, lineVisibility,
                   lexed, outDoc, sink>>

\* extract (batch): one round of the loop over the sorted entries
ExtractEntry ==
    /\ pc = "extract"
    /\ entryIndex < Len(entries)
    /\ LET entry == entries[entryIndex + 1]
           dst   == [NoOutput EXCEPT !.inputIndex = dstInputIndex(entry, entryIndex)]
       IN  IF entry.searchStyle = "None"
           THEN /\ out' = [out EXCEPT ![entryIndex + 1] = dst]
                /\ pc' = pc
                /\ UNCHANGED <<viewIndex, tokenList, lineVisibility, lexed, sink>>
           ELSE LET sourceView == outViews[entry.viewIndex + 1]
                    file       == SourceViews[sourceView].file
                    relex      == needsLex(viewIndex, entry)
                    toks       == IF relex THEN lexAllTokens(sourceView) ELSE tokenList
                    table      == IF relex
                                  THEN _calcLineVisibility(toks, SourceFiles[file].lineCount)
                                  ELSE lineVisibility
                    offset     == entry.locOrOffset
                    l          == SourceViews[sourceView].begin + offset
                    lineIndex  == calcLineIndexFromOffset(file, offset)
                    tokenIndex == _findTokenIndex(l, toks)
                    r          == IF tokenIndex >= 0 /\ lineIndex >= 0
                                  THEN locateAndExtract(toks, NoToken, tokenIndex,
                                                        entry.searchStyle)
                                  ELSE [res |-> "OK", text |-> <<>>]
                IN  /\ viewIndex' = entry.viewIndex
                    /\ tokenList' = toks
                    /\ lineVisibility' = table
                    /\ lexed' = IF relex THEN Append(lexed, sourceView) ELSE lexed
                    /\ sink' = IF relex THEN sink \o lexDiagnostics(sourceView) ELSE sink
                    /\ out' = [out EXCEPT ![entryIndex + 1] =
                                 [dst EXCEPT !.viewIndex = entry.viewIndex,
                                             !.visibilty = dstVisibilty(table, lineIndex),
                                             !.text = IF r.res = "OK" THEN r.text ELSE <<>>]]
                    /\ pc' = IF r.res = "OK" THEN pc ELSE "failed"
    /\ entryIndex' = entryIndex + 1
    /\ UNCHANGED <<arg, ret, scanVars, searchVars, decls, inputs, entries, outViews, outDoc>>

\* extract (batch) returns SLANG_OK; a module-level extraction goes on to set
\* the results back
ExtractDone ==
    /\ pc = "extract"
    /\ entryIndex = Len(entries)
    /\ pc' = IF arg.caller = "module" THEN "setback" ELSE "done"
    /\ entryIndex' = 0
    /\ UNCHANGED <<arg, ret, scanVars, searchVars, decls, inputs, entries, outViews, out, viewIndex,
                   tokenList, lineVisibility, lexed, outDoc, sink>>

\* extract (module): one round of the set-back loop
SetBack ==
    /\ pc = "setback"
    /\ entryIndex < Len(decls)
    /\ LET outputItem == out[entryIndex + 1]
           inputItem  == inputs[outputItem.inputIndex + 1]
       IN  outDoc' = IF inputItem.searchStyle # "None"
                     THEN Append(outDoc, [decl         |-> setBackDecl(outputItem, entryIndex),
                                          m_markup     |-> outputItem.text,
                                          m_visibility |-> outputItem.visibilty])
                     ELSE outDoc
    /\ entryIndex' = entryIndex + 1
    /\ UNCHANGED <<pc, arg, ret, scanVars, searchVars, decls, inputs, entries, outViews, out, viewIndex,
                   tokenList, lineVisibility, lexed, sink>>

\* extract (module) returns SLANG_OK
SetBackDone ==
    /\ pc = "setback"
    /\ entryIndex = Len(decls)
    /\ pc' = "done"
    /\ UNCHANGED <<arg, ret, scanVars, searchVars, batchVars>>

Next == BuildInputs \/ SortEntries \/ ExtractEntry \/ ExtractDone \/ SetBack \/ SetBackDone

Spec == Init /\ [][Next]_vars

\* what a request gets when it is looked up on its own, in its own view
RequestResult(sourceLoc, searchStyle) ==
    IF searchStyle = "None" THEN [visibilty |-> "Public", text |-> <<>>]
    ELSE LET v          == findSourceView(sourceLoc)
             file       == SourceViews[v].file
             toks       == lexAllTokens(v)
             table      == _calcLineVisibility(toks, SourceFiles[file].lineCount)
             lineIndex  == calcLineIndexFromOffset(file, sourceLoc - SourceViews[v].begin)
             tokenIndex == _findTokenIndex(sourceLoc, toks)
         IN  [visibilty |-> table[lineIndex],
              text      |-> IF tokenIndex >= 0
                            THEN locateAndExtract(toks, NoToken, tokenIndex, searchStyle).text
                            ELSE <<>>]

\* the batch has returned SLANG_OK
BatchReturned == pc \in {"setback", "done"}

C2_EntryHoldsOwnMarkup ==
    /\ \A e \in 1..Len(outDoc) :
          LET d    == decls[outDoc[e].decl + 1]
              want == RequestResult(d.loc, getSearchStyle(d))
          IN  /\ outDoc[e].m_markup = want.text
              /\ outDoc[e].m_visibility = want.visibilty
    /\ (pc = "done" /\ arg.caller = "module") =>
          \A k \in 0..(Len(decls) - 1) :
              Cardinality({ e \in 1..Len(outDoc) : outDoc[e].decl = k }) = 1

\* a module of three declarations is done whose batch was reordered, the
\* entries holding three different texts and two visibilities
C2_Witness ==
    /\ pc = "done" /\ arg.caller = "module"
    /\ Len(outDoc) = 3
    /\ out[1].inputIndex # 0
    /\ Cardinality({ outDoc[e].m_markup : e \in 1..3 }) = 3
    /\ Cardinality({ outDoc[e].m_visibility : e \in 1..3 }) = 2

\* C12: the span, dialect and location returned for a search style are those the
\* single-location locator gives for the first location of the style's list
\* that has markup (none if no location has); the probes of the later
\* locations change nothing.
C12_FirstLocationWins ==
    pc = "located" =>
        LET locs == styleLocations(arg.searchStyle)
            hits == { k \in 1..Len(locs) :
                        _findMarkup(arg.toks, NoToken, arg.tokIndex, locs[k]).res = "OK" }
        IN  IF hits = {} THEN ret.found = NotFound
            ELSE \E k \in hits :
                    /\ \A h \in hits : k <= h
                    /\ ret.found = _findMarkup(arg.toks, NoToken, arg.tokIndex, locs[k])
                    /\ ret.found.location = locs[k]

\* markup has been located in front of a parameter that has markup behind its
\* comma too
C12_Witness ==
    /\ pc = "located"
    /\ arg.searchStyle = "Param"
    /\ ret.found.res = "OK"
    /\ ret.found.location = "Before"
    /\ _findMarkup(arg.toks, NoToken, arg.tokIndex, "AfterParam").res = "OK"

\* C13 (as stated): when a location tried after the first one that has markup
\* has markup too, a warning goes to the diagnostic sink.
C13_AmbiguityWarned ==
    (pc = "located" /\ ret.found.res = "OK" /\ ret.others > 0) => ret.warnings > 0

\* the request has a search style and none of its locations has markup
NothingFound(sourceLoc, searchStyle) ==
    /\ searchStyle # "None"
    /\ LET v          == findSourceView(sourceLoc)
           toks       == lexAllTokens(v)
           tokenIndex == _findTokenIndex(sourceLoc, toks)
       IN  \/ tokenIndex < 0
           \/ _findMarkupStyle(toks, NoToken, tokenIndex, searchStyle).found.res # "OK"

\* C14: a request none of whose locations has markup gets empty text, sends
\* nothing to the sink and does not abort the batch; the results of the other
\* requests are what these requests get on their own.
C14_NotFoundAbsorbed ==
    /\ pc # "failed"
    /\ sink = <<>>
    /\ BatchReturned =>
          \A i \in 1..Len(out) :
              LET input == inputs[out[i].inputIndex + 1] IN
              IF NothingFound(input.sourceLoc, input.searchStyle)
              THEN out[i].text = <<>>
              ELSE LET want == RequestResult(input.sourceLoc, input.searchStyle) IN
                   /\ out[i].text = want.text
                   /\ out[i].visibilty = want.visibilty

\* a batch has returned whose second result is that of a request without
\* markup, between two requests that got their text
C14_Witness ==
    /\ BatchReturned
    /\ Len(out) = 3
    /\ LET input == inputs[out[2].inputIndex + 1] IN
          NothingFound(input.sourceLoc, input.searchStyle)
    /\ out[1].text # <<>>
    /\ out[2].text = <<>>
    /\ out[3].text # <<>>

\* C15: in one batch no source file is handed to the lexer (and to the
\* visibility scanner, which runs right after it) more than once.
C15_FileLexedOnce ==
    \A i, j \in 1..Len(lexed) :
        i # j => SourceViews[lexed[i]].file # SourceViews[lexed[j]].file

\* a batch has returned whose requests lie in file a, file b and file a again
\* (through its second view), in this order of submission
C15_Witness ==
    /\ BatchReturned
    /\ Len(inputs) = 3
    /\ \A i \in 1..3 : inputs[i].searchStyle # "None"
    /\ findSourceView(inputs[1].sourceLoc) = 1
    /\ findSourceView(inputs[2].sourceLoc) = 2
    /\ findSourceView(inputs[3].sourceLoc) = 3
    /\ Len(lexed) = 2

\* the line of a file on which the token at the given offset starts
LineOfDecl(file, offset) ==
    (CHOOSE t \in { SourceFiles[file].toks[k] : k \in 1..Len(SourceFiles[file].toks) } :
         t.loc = offset).line

\* the visibility table of a file
TableOf(file) == _calcLineVisibility(SourceFiles[file].toks, SourceFiles[file].lineCount)

\* C16: the visibility of the result of a request with a search style is the
\* entry of the visibility table of the request's own file for the line the
\* request's location lies on, with or without markup, wherever the markup lies.
C16_VisibilityOfDeclLine ==
    BatchReturned =>
        \A i \in 1..Len(out) :
            LET input == inputs[out[i].inputIndex + 1]
                v     == findSourceView(input.sourceLoc)
                file  == SourceViews[v].file
            IN  input.searchStyle # "None" =>
                   out[i].visibilty =
                      TableOf(file)[LineOfDecl(file, input.sourceLoc - SourceViews[v].begin)]

\* a batch has returned with a hidden result without markup, a hidden result
\* with markup and a public result with markup
C16_Witness ==
    /\ BatchReturned
    /\ \E i, j, k \in 1..Len(out) :
          /\ out[i].visibilty = "Hidden" /\ out[i].text = <<>>
          /\ inputs[out[i].inputIndex + 1].searchStyle # "None"
          /\ out[j].visibilty = "Hidden" /\ out[j].text # <<>>
          /\ out[k].visibilty = "Public" /\ out[k].text # <<>>

\* the kind of the declaration inside the generics around it
RECURSIVE InnermostKind(_)
InnermostKind(decl) ==
    IF decl.kind = "GenericDecl" THEN InnermostKind(decl.inner) ELSE decl.kind

\* the locations tried for a kind of declaration, in order
LocationsOfKind(kind) ==
    CASE kind = "EnumCaseDecl" -> <<"Before", "AfterEnumCase">>
      [] kind = "ParamDecl" -> <<"Before", "AfterParam">>
      [] kind = "CallableDecl" -> <<"Before">>
      [] kind \in {"VarDecl", "TypeDefDecl", "AssocTypeDecl"} -> <<"Before", "AfterSemicolon">>
      [] kind \in {"GenericValueParamDecl", "GenericTypeParamDecl"} ->
            <<"Before", "AfterGenericParam">>
      [] OTHER -> <<"Before">>

\* C17: the locations tried for a declaration are those of the table for its
\* kind, a generic taking the list of the declaration inside it; Before comes
\* first, and markup is only ever found at a location of the list.
C17_StrategyOfKind ==
    (pc \in {"locate", "located"} /\ "decl" \in DOMAIN arg) =>
        LET locs == styleLocations(arg.searchStyle) IN
        /\ locs = LocationsOfKind(InnermostKind(arg.decl))
        /\ locs[1] = "Before"
        /\ (pc = "located" /\ ret.found.res = "OK") =>
              \E k \in 1..Len(locs) : ret.found.location = locs[k]

\* markup has been found behind the comma of a parameter that lies inside two
\* generics
C17_Witness ==
    /\ pc = "located"
    /\ "decl" \in DOMAIN arg
    /\ arg.decl.kind = "GenericDecl"
    /\ arg.decl.inner.kind = "GenericDecl"
    /\ InnermostKind(arg.decl) = "ParamDecl"
    /\ ret.found.res = "OK"
    /\ ret.found.location = "AfterParam"

\* tokens j and j + 1 of a stream are of the dialect type and lie on adjacent
\* lines
RunGoesOn(toks, type, j) ==
    /\ 0 <= j /\ j + 1 < Len(toks)
    /\ findMarkupType(At(toks, j)) = type
    /\ findMarkupType(At(toks, j + 1)) = type
    /\ At(toks, j + 1).line = At(toks, j).line + 1

\* C18 (as stated): a multi-token span starts at the matched token, takes in
\* every further token (in scan direction) of the same dialect on the line
\* adjacent to the one before, and ends where the first token of another
\* dialect, the first token not on the adjacent line or the end of the stream
\* comes; backward and forward.
C18_SpanIsMaximalRun ==
    (pc = "located" /\ ret.found.res = "OK" /\ "IsMultiToken" \in getFlags(ret.found.type)) =>
        LET f == ret.found IN
        /\ \A j \in f.start..(f.end - 2) : RunGoesOn(arg.toks, f.type, j)
        /\ isBeforeLocation(f.location) => ~RunGoesOn(arg.toks, f.type, f.start - 1)
        /\ isAfterLocation(f.location) => ~RunGoesOn(arg.toks, f.type, f.end - 1)

\* the scan has returned at the token read last (not at the end of the stream)
ReturnedAtToken == pc = "returned" /\ 0 <= scanIndex /\ scanIndex < arg.count

\* C19 (as stated): a closing brace, comma, semicolon, closing parenthesis,
\* closing angle bracket or comment makes the scan return (accept or fail) only
\* when the depth counter is zero as the token is met (a closer met at depth
\* zero leaves the counter at -1 when it fails the scan).
C19_ReturnsOnlyAtDepthZero ==
    (/\ ReturnedAtToken
     /\ scanTok.type \in {"RBrace", "Comma", "Semicolon", "RParent", "OpGreater",
                          "LineComment", "BlockComment"})
    => scanDepth \in {0, -1}

\* C20 (as stated): while the scan runs over properly nested brackets the depth
\* counter is the number of brackets of the four kinds that are open in scan
\* direction; so the semicolon that ends a declaration is met at depth zero in
\* an AfterSemicolon scan, and accepted.
C20_DepthCountsOpenBrackets ==
    (nest.balanced /\ ~nest.left) =>
        /\ pc = "scan" => scanDepth = Len(nest.stack)
        /\ (/\ arg.location = "AfterSemicolon"
            /\ scanTok.type = "Semicolon"
            /\ nest.stack = <<>>)
           => (ReturnedAtToken /\ ret = scanIndex + 1)

----------------------------------------------------------------------------
(* SpecSearch: _findTokenIndex, one round of its loop at a time, over every *)
(* token list with strictly ascending locations.                            *)

\* the tokens at the locations ls, in ascending order of location
RECURSIVE TokensAt(_)
TokensAt(ls) ==
    IF ls = {} THEN <<>>
    ELSE LET least == CHOOSE x \in ls : \A y \in ls : x <= y IN
         <<Token("Identifier", <<"t">>, 0, least, least)>> \o TokensAt(ls \ {least})

InitSearch ==
    /\ ScanIdle
    /\ BatchIdle
    /\ pc = "search"
    /\ \E ls \in SUBSET (0..MaxSearchLoc) : \E l \in 0..(MaxSearchLoc + 1) :
          /\ Cardinality(ls) <= MaxSearchTokens
          /\ arg = [loc |-> l, toks |-> TokensAt(ls)]
          /\ searchLo = 0
          /\ searchHi = Cardinality(ls)
    /\ ret = -1

\* one round of the loop of _findTokenIndex
SearchStep ==
    /\ pc = "search"
    /\ searchLo + 1 < searchHi
    /\ LET mid      == (searchHi + searchLo) \div 2
           midToken == At(arg.toks, mid)
       IN  IF midToken.loc = arg.loc
           THEN /\ ret' = mid
                /\ pc' = "returned"
                /\ UNCHANGED searchVars
           ELSE /\ IF midToken.loc <= arg.loc
                   THEN searchLo' = mid /\ searchHi' = searchHi
                   ELSE searchHi' = mid /\ searchLo' = searchLo
                /\ UNCHANGED <<pc, ret>>
    /\ UNCHANGED <<arg, scanVars, batchVars>>

\* the loop of _findTokenIndex ends: not found
SearchExit ==
    /\ pc = "search"
    /\ ~(searchLo + 1 < searchHi)
    /\ ret' = -1
    /\ pc' = "returned"
    /\ UNCHANGED <<arg, scanVars, searchVars, batchVars>>

NextSearch == SearchStep \/ SearchExit

SpecSearch == InitSearch /\ [][NextSearch]_vars

\* the indices of the tokens that start exactly at the request's location
TokensAtLoc == { k \in 0..(Len(arg.toks) - 1) : At(arg.toks, k).loc = arg.loc }

\* the indices of the tokens that start at or before the request's location
TokensUpToLoc == { k \in 0..(Len(arg.toks) - 1) : At(arg.toks, k).loc <= arg.loc }

\* C21 (as stated): when the request's location is the location of the token
\* at index k of a list sorted by strictly ascending location, the lookup
\* returns k, for every k from the first token to the last.
C21_FindsTokenAtLoc ==
    pc = "returned" => \A k \in TokensAtLoc : ret = k

\* C22 (as stated): when no token starts at the request's location, the lookup
\* returns the governing token, the last token that starts at or before it.
C22_ResolvesToGoverningToken ==
    (pc = "returned" /\ TokensAtLoc = {} /\ TokensUpToLoc # {})
    => (ret \in TokensUpToLoc /\ \A k \in TokensUpToLoc : k <= ret)

\* the locations tried for the declaration of the running call
LocationsTried == { styleLocations(arg.searchStyle)[k] :
                      k \in 1..Len(styleLocations(arg.searchStyle)) }

\* the index the boundary scan gave for a span: the token next to the
\* declaration, from which the run was extended
ScanIndexOf(found) ==
    IF isBeforeLocation(found.location) THEN found.end - 1 ELSE found.start

\* C23: the single-location locator gives not-found, with the output span
\* reset, whenever the boundary scan fails or gives index 0; a span that is
\* returned was found at a scan index of at least 1, so that a comment that is
\* the first token of the stream is in a span only as the far end of a run.
C23_NotFoundAtStreamStart ==
    pc = "located" =>
        /\ \A location \in LocationsTried :
              LET startIndex == _findStartIndex(arg.toks, arg.tokIndex, location)
                  found      == _findMarkup(arg.toks, NoToken, arg.tokIndex, location)
              IN  /\ startIndex <= 0 =>
                        (found = NotFound /\ found.start = 0 /\ found.end = 0)
                  /\ found.res = "OK" => (ScanIndexOf(found) = startIndex /\ startIndex >= 1)
        /\ ret.found.res = "OK" => ScanIndexOf(ret.found) >= 1
        /\ (\A location \in LocationsTried :
                _findStartIndex(arg.toks, arg.tokIndex, location) <= 0)
           => (ret.found = NotFound /\ ret.text = <<>>)

\* the name at index 1 has a '///' comment in front of it that is the first
\* token of the stream: the scan gives index 0 and nothing is found
C23_Witness ==
    /\ pc = "located"
    /\ arg.tokIndex = 1
    /\ findMarkupType(At(arg.toks, 0)) = "LineSlashBefore"
    /\ _findStartIndex(arg.toks, arg.tokIndex, "Before") = 0
    /\ ret.found = NotFound

\* C24: every span the locator returns is a non-empty half-open range of token
\* indices, 0 <= start < end <= count, whichever way the scan went, and a span
\* of a block dialect holds exactly one token.
C24_SpanIsNonEmptyRange ==
    pc = "located" =>
        \A location \in LocationsTried :
            LET found == _findMarkup(arg.toks, NoToken, arg.tokIndex, location) IN
            found.res = "OK" =>
                /\ 0 <= found.start
                /\ found.start < found.end
                /\ found.end <= Len(arg.toks)
                /\ "IsBlock" \in getFlags(found.type) => found.end = found.start + 1
                /\ (location = styleLocations(arg.searchStyle)[1] \/ ret.found.location = location)
                   => ret.found = found

\* a block comment right behind another block comment is returned alone
C24_Witness ==
    /\ pc = "located"
    /\ "IsBlock" \in getFlags(ret.found.type)
    /\ ret.found.res = "OK"
    /\ ret.found.end = ret.found.start + 1
    /\ \E j \in {ret.found.start - 1, ret.found.end} :
          findMarkupType(At(arg.toks, j)) = ret.found.type

\* the dialects of each direction
BeforeDialects == {"BlockBefore", "LineBangBefore", "LineSlashBefore"}

AfterDialects == {"BlockAfter", "LineBangAfter", "LineSlashAfter"}

\* C25: a span returned for the Before location has a before-dialect and a
\* span returned for an After location an after-dialect; when the token at the
\* scan's index has no dialect or one of the other direction, nothing is found.
C25_DialectMatchesLocation ==
    pc = "located" =>
        /\ \A location \in LocationsTried :
              LET startIndex == _findStartIndex(arg.toks, arg.tokIndex, location)
                  found      == _findMarkup(arg.toks, NoToken, arg.tokIndex, location)
                  wanted     == IF location = "Before" THEN BeforeDialects ELSE AfterDialects
              IN  /\ found.res = "OK" => (found.type \in wanted /\ found.location = location)
                  /\ (startIndex >= 1
                      /\ findMarkupType(TokAt(arg.toks, NoToken, startIndex)) \notin wanted)
                     => found = NotFound
        /\ ret.found.res = "OK" =>
              ret.found.type \in (IF ret.found.location = "Before" THEN BeforeDialects
                                  ELSE AfterDialects)

\* behind the delimiter of the declaration lies the before-comment of the next
\* declaration: the After location finds nothing
C25_Witness ==
    /\ pc = "located"
    /\ ret.found = NotFound
    /\ \E location \in LocationsTried \ {"Before"} :
          LET startIndex == _findStartIndex(arg.toks, arg.tokIndex, location) IN
          /\ startIndex >= 1
          /\ findMarkupType(TokAt(arg.toks, NoToken, startIndex)) \in BeforeDialects

\* C26 (as stated): for every block comment token that is classified
\* BlockBefore or BlockAfter, the last line still ends with the close-sequence
\* when it is stripped: the assertion holds and the extraction goes through.
C26_CloseSeqAssertionHolds ==
    (pc = "extracted" /\ "IsBlock" \in getFlags(ret.type)) => ret.res = "OK"

----------------------------------------------------------------------------
(* SpecFlatten: findDecls on a module's declaration tree.  A declaration is *)
(* [loc, nameLoc, inner, members]: whether decl->loc and                    *)
(* decl->nameAndLoc.loc are valid, the inner declaration of a generic (<<>> *)
(* when the declaration is no generic or inner is null) and the members of  *)
(* a container.  A declaration is named by its path from the module: k for  *)
(* the k-th member, 0 for the inner declaration.                            *)

\* the sequences of up to n elements of S
SeqsUpTo(S, n) == UNION { [1..k -> S] : k \in 0..n }

\* the declaration trees of the given depth at most
RECURSIVE DeclTrees(_)
DeclTrees(depth) ==
    { [loc |-> v[1], nameLoc |-> v[2], inner |-> <<>>, members |-> <<>>] :
        v \in {<<TRUE, FALSE>>, <<FALSE, TRUE>>, <<FALSE, FALSE>>} }
    \cup (IF depth = 0 THEN {}
          ELSE { [loc |-> v[1], nameLoc |-> v[2], inner |-> inner, members |-> members] :
                   v \in {<<TRUE, FALSE>>, <<FALSE, TRUE>>, <<FALSE, FALSE>>},
                   inner \in SeqsUpTo(DeclTrees(depth - 1), 1),
                   members \in SeqsUpTo(DeclTrees(depth - 1), MaxMembers) })

\* _addDeclRec on the declaration at path, and then on the declarations that
\* follow it: st is [outDecls, res].  A declaration without a location fails
\* the assertion: a build with assertions (checked) stops there, a build
\* without them goes on.
RECURSIVE _addDeclRec(_, _, _, _)
RECURSIVE addDeclsRec(_, _, _, _, _)
addDeclsRec(seq, k, path, st, checked) ==
    IF k > Len(seq) \/ st.res # "OK" THEN st
    ELSE Only({ addDeclsRec(seq, k + 1, path, st1, checked) :
                st1 \in {_addDeclRec(seq[k], Append(path, k), st, checked)} })

\* the second half of _addDeclRec: the inner declaration of a generic, then
\* the members of a container
addInnerAndMembers(decl, path, st, checked) ==
    addDeclsRec(decl.members, 1, path,
                IF decl.inner = <<>> THEN st
                ELSE _addDeclRec(decl.inner[1], Append(path, 0), st, checked),
                checked)

_addDeclRec(decl, path, st, checked) ==
    IF st.res # "OK" THEN st
    ELSE IF decl.loc \/ decl.nameLoc
    THEN addInnerAndMembers(decl, path, [st EXCEPT !.outDecls = Append(@, path)], checked)
    ELSE IF checked THEN [st EXCEPT !.res = "ASSERT"]
    ELSE addInnerAndMembers(decl, path, st, checked)

\* DocMarkupExtractor::findDecls
findDecls(members, checked) ==
    addDeclsRec(members, 1, <<>>, [outDecls |-> <<>>, res |-> "OK"], checked)

InitFlatten ==
    /\ ScanIdle
    /\ SearchIdle
    /\ BatchIdle
    /\ pc = "flatten"
    /\ \E members \in SeqsUpTo(DeclTrees(MaxTreeDepth), MaxMembers), checked \in BOOLEAN :
          arg = [members |-> members, checked |-> checked]
    /\ ret = <<>>

Flatten ==
    /\ pc = "flatten"
    /\ pc' = "flattened"
    /\ ret' = findDecls(arg.members, arg.checked)
    /\ UNCHANGED <<arg, scanVars, searchVars, batchVars>>

NextFlatten == Flatten

SpecFlatten == InitFlatten /\ [][NextFlatten]_vars

\* the module as the root of the tree
ModuleDecl == [loc |-> TRUE, nameLoc |-> FALSE, inner |-> <<>>, members |-> arg.members]

\* the declaration at a path below decl, as a sequence of one declaration, or
\* <<>> when the path leads nowhere
RECURSIVE DeclAt(_, _)
DeclAt(decl, path) ==
    IF path = <<>> THEN <<decl>>
    ELSE LET e     == Head(path)
             child == IF e = 0 THEN decl.inner
                      ELSE IF e <= Len(decl.members) THEN <<decl.members[e]>> ELSE <<>>
         IN  IF child = <<>> THEN <<>> ELSE DeclAt(child[1], Tail(path))

\* the declarations reachable from the module's members through member and
\* generic-inner edges
ReachableDecls ==
    { p \in UNION { [1..n -> 0..MaxMembers] : n \in 1..(MaxTreeDepth + 1) } :
        DeclAt(ModuleDecl, p) # <<>> }

\* those that carry a valid location
LocatedDecls ==
    { p \in ReachableDecls : DeclAt(ModuleDecl, p)[1].loc \/ DeclAt(ModuleDecl, p)[1].nameLoc }

\* p comes before q in pre-order: a declaration before what lies below it, the
\* inner declaration before the members, the members in their order
PreOrderLess(p, q) ==
    \/ Len(p) < Len(q) /\ SubSeq(q, 1, Len(p)) = p
    \/ \E i \in 1..Min({Len(p), Len(q)}) :
          /\ SubSeq(p, 1, i - 1) = SubSeq(q, 1, i - 1)
          /\ p[i] < q[i]

\* C27 (as stated): flattening gives, in pre-order, every reachable
\* declaration that has a valid location; a declaration without one is flagged
\* and what lies below it is visited all the same.
C27_FlattenPreOrder ==
    pc = "flattened" =>
        /\ { ret.outDecls[k] : k \in 1..Len(ret.outDecls) } = LocatedDecls
        /\ \A i, j \in 1..Len(ret.outDecls) :
              i < j => PreOrderLess(ret.outDecls[i], ret.outDecls[j])
        /\ ReachableDecls # LocatedDecls => ret.res = "ASSERT"

\* the number of comments of the run that are left out: a white first one, and
\* a white last one that is not the first
DroppedEnds(run) ==
    (IF IsBlank(Undecorated(run, 1)) THEN 1 ELSE 0)
    + (IF Len(run) > 1 /\ IsBlank(Undecorated(run, Len(run))) THEN 1 ELSE 0)

\* C28: of a run of line comments only the first and the last can be left out,
\* and only when white without their decoration; every comment in between
\* gives a line of the output, white or not; when nothing is left the text is
\* empty and the call succeeds.
C28_OnlyEndsDropped ==
    pc = "extracted" =>
        LET outl  == calcLines(ret.text)
            first == IF IsBlank(Undecorated(arg, 1)) THEN 1 ELSE 0
        IN  /\ ret.res = "OK"
            /\ lineBreaks(ret.text) = Len(arg) - DroppedEnds(arg)
            /\ \A k \in 2..(Len(arg) - 1) :
                  IsBlank(outl[k - first]) <=> IsBlank(Undecorated(arg, k))
            /\ ~IsBlank(Undecorated(arg, 1)) => ~IsBlank(outl[1])
            /\ ~IsBlank(Undecorated(arg, Len(arg))) => ~IsBlank(outl[Len(arg) - first])
            /\ DroppedEnds(arg) = Len(arg) => ret.text = <<>>

\* a run of three comments, the first and the second white: the first is left
\* out, the second gives an empty line
C28_Witness ==
    /\ pc = "extracted"
    /\ Len(arg) = 3
    /\ IsBlank(Undecorated(arg, 1))
    /\ IsBlank(Undecorated(arg, 2))
    /\ ~IsBlank(Undecorated(arg, 3))
    /\ lineBreaks(ret.text) = 2
    /\ IsBlank(calcLines(ret.text)[1])

----------------------------------------------------------------------------
(* SpecLocateEnd: the markup of a declaration whose delimiter is the last   *)
(* token of the list (no end-of-file token follows).  arg.oob is what a     *)
(* read of toks[count] gives: the memory past the last token is not part of *)
(* the list, and any token can be read there.                               *)

PastEndTokens ==
    {NoToken,
     Token("Identifier", <<"z">>, 0, 0, 0),
     Token("LineComment", <<"/", "/", "/", "<", " ", "z">>, 1, 0, 0),
     Token("LineComment", <<"/", "/", "/", " ", "z">>, 2, 0, 0),
     Token("BlockComment", <<"/", "*", "*", "<", " ", "z", "*", "/">>, 1, 0, 0)}

InitLocateEnd ==
    /\ ScanIdle
    /\ SearchIdle
    /\ BatchIdle
    /\ ret = <<>>
    /\ pc = "locate"
    /\ \E searchStyle \in SearchStyles :
       \E delimiter \in {"Semi", "Comma", "RParent", "OpGreater"} :
       \E front \in {<<>>, <<"Doc">>, <<"Bang">>}, oob \in PastEndTokens :
          arg = [toks |-> StreamOf(<<"Ident", "Semi">> \o front \o <<"Ident", delimiter>>,
                                   <<0, 0>> \o [k \in 1..Len(front) |-> 1] \o <<1, 0>>,
                                   [k \in 1..(4 + Len(front)) |-> "Before"]),
                 tokIndex |-> 2 + Len(front),
                 searchStyle |-> searchStyle,
                 oob |-> oob]

\* _findMarkup(findInfo, searchStyle, foundMarkup) and _extractMarkup for the
\* declaration at arg.tokIndex
LocateEnd ==
    /\ pc = "locate"
    /\ pc' = "located"
    /\ ret' = locateAndExtract(arg.toks, arg.oob, arg.tokIndex, arg.searchStyle)
    /\ UNCHANGED <<arg, scanVars, searchVars, batchVars>>

NextLocateEnd == LocateEnd

SpecLocateEnd == InitLocateEnd /\ [][NextLocateEnd]_vars

----------------------------------------------------------------------------
(* SpecLive: the loops of the extractor followed to their end: a boundary   *)
(* scan, a token lookup, or a batch.  The code is sequential: whatever step *)
(* is next is taken, which is weak fairness of the next-state action.       *)

\* the variable w of file b, which has the comment /**/ in front of it
LiveDecls == ModuleDecls \cup {[kind |-> "VarDecl", loc |-> 220]}

LiveRequests == BatchRequests \cup {[sourceLoc |-> 220, searchStyle |-> "Variable"]}

InitLive ==
    \/ InitScan
    \/ InitSearch
    \/ /\ ScanIdle
       /\ SearchIdle
       /\ ret = <<>>
       /\ entries = <<>> /\ outViews = <<>> /\ out = <<>> /\ entryIndex = 0
       /\ viewIndex = -1 /\ tokenList = <<>> /\ lineVisibility = <<>>
       /\ lexed = <<>> /\ outDoc = <<>> /\ sink = <<>>
       /\ \E n \in 0..MaxLiveRequests :
             \/ \E ds \in [1..n -> LiveDecls] :
                   /\ arg = [caller |-> "module"]
                   /\ pc = "inputs"
                   /\ decls = ds
                   /\ inputs = <<>>
             \/ \E is \in [1..n -> LiveRequests] :
                   /\ arg = [caller |-> "batch"]
                   /\ pc = "entries"
                   /\ decls = <<>>
                   /\ inputs = is

NextLive == NextScan \/ NextSearch \/ Next

SpecLive == InitLive /\ [][NextLive]_vars /\ WF_vars(NextLive)

\* the batch has come to its end with a result for every request
BatchComplete ==
    /\ pc = "done"
    /\ Len(out) = Len(inputs)
    /\ \A i \in 0..(Len(inputs) - 1) :
          Cardinality({ k \in 1..Len(out) : out[k].inputIndex = i }) = 1

\* the number of steps the running loop can still take, at most: the tokens
\* between the scan index and the end of the list it moves to, the width of
\* the interval of the token lookup, the entries and declarations the loops
\* of the batch have not come to yet
LoopMeasure ==
    CASE pc = "scan" ->
           1 + (IF scanDirection(arg.location) = 1
                THEN (IF scanIndex < arg.count THEN arg.count - scanIndex ELSE 0)
                ELSE (IF scanIndex >= 0 THEN scanIndex + 1 ELSE 0))
      [] pc = "search"  -> 1 + (searchHi - searchLo)
      [] pc = "inputs"  -> 4 + 2 * Len(decls)
      [] pc = "entries" -> 3 + Len(inputs) + Len(decls)
      [] pc = "extract" -> 2 + (Len(entries) - entryIndex) + Len(decls)
      [] pc = "setback" -> 1 + (Len(decls) - entryIndex)
      [] OTHER          -> 0

\* C30 (as stated): every step of the boundary scan, of the token lookup and of
\* the batch brings its loop nearer to its end (the scan index moves one token
\* towards the end of the list, the interval of the lookup shrinks, the batch
\* goes on to its next request), so that every loop ends; and where the batch
\* ends, it has a result for every request.
C30_EveryLoopTerminates ==
    /\ [](LoopMeasure \in Nat)
    /\ [][LoopMeasure' < LoopMeasure]_vars
    /\ [][(pc = "scan" /\ pc' = "scan") =>
             scanIndex' = scanIndex + scanDirection(arg.location)]_vars
    /\ [](LoopMeasure = 0 => (pc = "returned" \/ BatchComplete))

====
